---- MODULE Spec2Model ----
(***************************************************************************)
(* Model of the lyrics prosody analyzer: the rhyme utilities               *)
(* (extractRhymingSyllable, wordsRhyme, analyzeRhyme, countSyllables) and  *)
(* the LyricsParser (parseLyrics, splitIntoStanzas, parseStanzaIntoVerses, *)
(* determineRhymePattern).                                                 *)
(*                                                                         *)
(* A JavaScript string is a sequence of one-character strings.  The ten    *)
(* accented vowels of the source's character classes are the characters    *)
(* "agrave" ... "uacute".  A JavaScript value that is not a string (the    *)
(* inherited properties of an object literal, undefined) is a one-element  *)
(* sequence holding a token that is no character.                          *)
(***************************************************************************)
EXTENDS Integers, Sequences, FiniteSets, TLC

VARIABLES
  lyrics,             \* parseLyrics: the input text
  pc,                 \* parseLyrics: position in the call
  stanzas,            \* parseLyrics: result of splitIntoStanzas
  stanzaIndex,        \* parseLyrics: index of the stanzas.forEach callback
  verses,             \* determineRhymePattern: the stanza's verses (mutated in place)
  index,              \* determineRhymePattern: index of the verses.forEach callback
  rhymeGroups,        \* determineRhymePattern: label -> [verses, type]
  rhymeIndices,       \* determineRhymePattern: label of each processed verse
  currentRhymeIndex,  \* determineRhymePattern: number of groups opened
  parsedStanzas,      \* parseLyrics: the stanzas pushed so far
  fn,                 \* utility call: the exported function called, "none" when idle
  word1,              \* utility call: first argument
  word2,              \* utility call: second argument
  ret,                \* utility call: the value returned
  thrown              \* utility call: TRUE when the call raised a TypeError

parserVars == <<lyrics, pc, stanzas, stanzaIndex, verses, index, rhymeGroups,
                rhymeIndices, currentRhymeIndex, parsedStanzas>>
utilVars == <<fn, word1, word2, ret, thrown>>
vars == <<lyrics, pc, stanzas, stanzaIndex, verses, index, rhymeGroups,
          rhymeIndices, currentRhymeIndex, parsedStanzas, fn, word1, word2, ret, thrown>>

-----------------------------------------------------------------------------
(* Characters and JavaScript string primitives *)

LowerLetters == <<"a", "b", "c", "d", "e", "f", "g", "h", "i", "j", "k", "l", "m", "n", "o", "p", "q", "r", "s", "t", "u", "v", "w", "x", "y", "z">>
UpperLetters == <<"A", "B", "C", "D", "E", "F", "G", "H", "I", "J", "K", "L", "M", "N", "O", "P", "Q", "R", "S", "T", "U", "V", "W", "X", "Y", "Z">>
Digits == {"0", "1", "2", "3", "4", "5", "6", "7", "8", "9"}
AccentedVowels == {"agrave", "egrave", "igrave", "ograve", "ugrave",
                   "aacute", "eacute", "iacute", "oacute", "uacute"}
WhiteSpace == {" ", "\t", "\n", "\r"}

Range(s) == {s[i] : i \in 1..Len(s)}

LowerLetterSet == Range(LowerLetters)
UpperLetterSet == Range(UpperLetters)
WordChars == LowerLetterSet \cup UpperLetterSet \cup Digits \cup {"_"}

\* the regular expression class \w
IsWordChar(c) == c \in WordChars

\* the regular expression class [a-z]
IsLowerLetter(c) == c \in LowerLetterSet

LowerChar(c) ==
  IF c \in UpperLetterSet
    THEN LowerLetters[CHOOSE i \in 1..Len(UpperLetters) : UpperLetters[i] = c]
    ELSE c

toLowerCase(s) == [i \in 1..Len(s) |-> LowerChar(s[i])]

\* s.slice(-n)
SliceLast(s, n) == IF Len(s) <= n THEN s ELSE SubSeq(s, Len(s) - n + 1, Len(s))

endsWith(s, suffix) == Len(suffix) <= Len(s) /\ SliceLast(s, Len(suffix)) = suffix

startsWith(s, prefix) == Len(prefix) <= Len(s) /\ SubSeq(s, 1, Len(prefix)) = prefix

\* s.includes(sub)
includes(s, sub) == \E i \in 1..(Len(s) - Len(sub) + 1) : SubSeq(s, i, i + Len(sub) - 1) = sub

\* s.trim()
RECURSIVE trimStart(_)
trimStart(s) == IF s /= <<>> /\ Head(s) \in WhiteSpace THEN trimStart(Tail(s)) ELSE s

RECURSIVE trimEnd(_)
trimEnd(s) ==
  IF s /= <<>> /\ s[Len(s)] \in WhiteSpace THEN trimEnd(SubSeq(s, 1, Len(s) - 1)) ELSE s

trim(s) == trimEnd(trimStart(s))

\* s.split(separator) for the non-empty, non-overlapping matches of the
\* separator given as a set of <<first, last>> positions: the pieces of s
\* from position `from` on, the empty pieces included
RECURSIVE splitFrom(_, _, _)
splitFrom(s, from, matches) ==
  LET next == {m \in matches : m[1] >= from}
  IN  IF next = {} THEN <<SubSeq(s, from, Len(s))>>
      ELSE LET first == CHOOSE m \in next : \A o \in next : m[1] <= o[1]
           IN  <<SubSeq(s, from, first[1] - 1)>> \o splitFrom(s, first[2] + 1, next)

\* the last position of the maximal run of white space that contains position i
RECURSIVE whiteSpaceRunEnd(_, _)
whiteSpaceRunEnd(s, i) ==
  IF i < Len(s) /\ s[i + 1] \in WhiteSpace THEN whiteSpaceRunEnd(s, i + 1) ELSE i

\* the matches of /\s+/ in s: the maximal runs of white space
whiteSpaceRuns(s) ==
  {<<i, whiteSpaceRunEnd(s, i)>> : i \in {k \in 1..Len(s) :
      s[k] \in WhiteSpace /\ (k = 1 \/ s[k - 1] \notin WhiteSpace)}}

\* s.split(/\s+/)
splitWhiteSpace(s) == splitFrom(s, 1, whiteSpaceRuns(s))

\* s.split('\n')
splitNewline(s) == splitFrom(s, 1, {<<i, i>> : i \in {k \in 1..Len(s) : s[k] = "\n"}})

NonEmpty(s) == s /= <<>>

-----------------------------------------------------------------------------
(* JavaScript values that are not strings *)

Undefined == <<"undefined">>
ObjectConstructor == <<"[Function: Object]">>
ObjectPrototype == <<"[Object: null prototype] {}">>

IsString(v) == v \notin {Undefined, ObjectConstructor, ObjectPrototype}

\* the truthiness test of `if (table[key])` and of `!syllable`
Truthy(v) == v /= Undefined /\ v /= <<>>

\* table[key] on an object literal `table`, whose entries are <<key, value>>
\* pairs: an own entry, else the property inherited from Object.prototype
\* that a lower-cased \w-only key can name, else undefined
HasOwn(table, key) == \E i \in 1..Len(table) : table[i][1] = key

PropertyRead(table, key) ==
  IF HasOwn(table, key)
    THEN table[CHOOSE i \in 1..Len(table) : table[i][1] = key][2]
  ELSE IF key = <<"c", "o", "n", "s", "t", "r", "u", "c", "t", "o", "r">> THEN ObjectConstructor
  ELSE IF key = <<"_", "_", "p", "r", "o", "t", "o", "_", "_">> THEN ObjectPrototype
  ELSE Undefined

-----------------------------------------------------------------------------
(* extractRhymingSyllable *)

rhymeSpecialCases == <<
  <<<<"s", "t", "a", "r">>, <<"a", "r">>>>, <<<<"a", "r", "e">>, <<"a", "r">>>>, <<<<"c", "a", "r">>, <<"a", "r">>>>,
  <<<<"f", "a", "r">>, <<"a", "r">>>>, <<<<"b", "a", "r">>, <<"a", "r">>>>,
  <<<<"h", "i", "g", "h">>, <<"i", "g", "h">>>>, <<<<"s", "k", "y">>, <<"i", "g", "h">>>>, <<<<"m", "y">>, <<"i", "g", "h">>>>,
  <<<<"f", "l", "y">>, <<"i", "g", "h">>>>, <<<<"b", "y">>, <<"i", "g", "h">>>>, <<<<"t", "r", "y">>, <<"i", "g", "h">>>>,
  <<<<"c", "r", "y">>, <<"i", "g", "h">>>>, <<<<"d", "i", "e">>, <<"i", "g", "h">>>>, <<<<"t", "i", "e">>, <<"i", "g", "h">>>>,
  <<<<"p", "i", "e">>, <<"i", "g", "h">>>>, <<<<"l", "i", "e">>, <<"i", "g", "h">>>>, <<<<"i">>, <<"i", "g", "h">>>>,
  <<<<"w", "h", "y">>, <<"i", "g", "h">>>>, <<<<"g", "u", "y">>, <<"i", "g", "h">>>>, <<<<"b", "u", "y">>, <<"i", "g", "h">>>>,
  <<<<"d", "r", "y">>, <<"i", "g", "h">>>>, <<<<"e", "y", "e">>, <<"i", "g", "h">>>>, <<<<"s", "p", "y">>, <<"i", "g", "h">>>>,
  <<<<"s", "h", "y">>, <<"i", "g", "h">>>>, <<<<"t", "o", "p", "i", "c">>, <<"i", "c">>>>, <<<<"m", "i", "l", "w", "a", "u", "k", "e", "e">>, <<"k", "e", "e">>>>,
  <<<<"f", "i", "l", "t", "r", "o">>, <<"t", "r", "o">>>>, <<<<"d", "i", "p", "i", "n", "t", "o">>, <<"n", "t", "o">>>>, <<<<"a", "m", "i", "c", "o">>, <<"i", "c", "o">>>>,
  <<<<"s", "p", "a", "r", "i", "t", "o">>, <<"i", "t", "o">>>>, <<<<"z", "i", "o", "n">>, <<"o", "n">>>>, <<<<"s", "o", "l", "e">>, <<"o", "l", "e">>>>,
  <<<<"s", "a", "l", "i">>, <<"a", "l", "i">>>> >>

\* the ordered list of ending patterns /ing$/, /tion$/, ...
patterns == <<
  <<"i", "n", "g">>, <<"t", "i", "o", "n">>, <<"n", "e", "s", "s">>, <<"f", "u", "l">>, <<"l", "e", "s", "s">>, <<"l", "y">>, <<"e", "d">>, <<"e", "r">>,
  <<"e", "s", "t">>, <<"i", "z", "e">>, <<"i", "s", "e">>, <<"o", "u", "s">>, <<"a", "b", "l", "e">>, <<"i", "b", "l", "e">>, <<"i", "g", "h", "t">>, <<"a", "r">>,
  <<"i", "g", "h">> >>

PlainVowels == {"a", "e", "i", "o", "u"}

\* the class [bcdfghjklmnpqrstvwxyz]
ConsonantsWithY == LowerLetterSet \ PlainVowels

\* the class [bcdfghjklmnpqrstvwxz]
ConsonantsWithoutY == ConsonantsWithY \ {"y"}

\* /[aeiou][bcdfghjklmnpqrstvwxyz]$/.test(lastTwo)
VowelThenConsonant(lastTwo) ==
  /\ Len(lastTwo) >= 2
  /\ lastTwo[Len(lastTwo) - 1] \in PlainVowels
  /\ lastTwo[Len(lastTwo)] \in ConsonantsWithY

\* word.toLowerCase().replace(/[^\w]/g, '')
rhymeCleanWord(word) == SelectSeq(toLowerCase(word), IsWordChar)

extractFallback(cleanWord) ==
  IF Len(cleanWord) >= 3
    THEN LET lastThree == SliceLast(cleanWord, 3)
             lastTwo == SliceLast(cleanWord, 2)
         IN  IF VowelThenConsonant(lastTwo) THEN lastTwo
             ELSE IF Len(cleanWord) >= 4 THEN lastThree ELSE lastTwo
    ELSE cleanWord

extractByPattern(cleanWord) ==
  LET matching == {i \in 1..Len(patterns) : endsWith(cleanWord, patterns[i])}
  IN  IF matching /= {}
        THEN patterns[CHOOSE i \in matching : \A j \in matching : i <= j]
        ELSE extractFallback(cleanWord)

\* a variant of extractRhymingSyllable whose exception table also maps the
\* one-letter word 'y' to 'igh'
extractRhymingSyllableWithY(word) ==
  IF word = <<>> THEN <<>>
  ELSE LET cleanWord == rhymeCleanWord(word)
           special == IF cleanWord = <<"y">> THEN <<"i", "g", "h">>
                      ELSE PropertyRead(rhymeSpecialCases, cleanWord)
       IN  IF Truthy(special) THEN special ELSE extractByPattern(cleanWord)

extractRhymingSyllable(word) ==
  IF word = <<>> THEN <<>>
  ELSE LET cleanWord == rhymeCleanWord(word)
           special == PropertyRead(rhymeSpecialCases, cleanWord)
       IN  IF Truthy(special) THEN special ELSE extractByPattern(cleanWord)

-----------------------------------------------------------------------------
(* wordsRhyme, checkAssonance *)

broadRhymeGroups == <<
  <<<<"a", "r">>, <<<<"a", "r", "e">>, <<"a", "r">>>> >>,
  <<<<"a", "r", "e">>, <<<<"a", "r">>, <<"a", "r", "e">>>> >>,
  <<<<"a", "y">>, <<<<"e", "y">>, <<"a", "y">>, <<"a", "i">>, <<"e", "i", "g", "h">>>> >>,
  <<<<"e", "y">>, <<<<"a", "y">>, <<"e", "y">>, <<"a", "i">>, <<"e", "i", "g", "h">>>> >>,
  <<<<"a", "i">>, <<<<"a", "y">>, <<"e", "y">>, <<"a", "i">>, <<"e", "i", "g", "h">>>> >>,
  <<<<"e", "i", "g", "h">>, <<<<"a", "y">>, <<"e", "y">>, <<"a", "i">>, <<"e", "i", "g", "h">>>> >>,
  <<<<"i", "g", "h">>, <<<<"y">>, <<"i", "g", "h">>, <<"i", "e">>, <<"k", "y">>, <<"i">>>> >>,
  <<<<"y">>, <<<<"i", "g", "h">>, <<"y">>, <<"i", "e">>, <<"k", "y">>, <<"i">>>> >>,
  <<<<"i", "e">>, <<<<"i", "g", "h">>, <<"y">>, <<"i", "e">>, <<"k", "y">>, <<"i">>>> >>,
  <<<<"k", "y">>, <<<<"i", "g", "h">>, <<"y">>, <<"i", "e">>, <<"k", "y">>, <<"i">>>> >>,
  <<<<"i">>, <<<<"i", "g", "h">>, <<"y">>, <<"i", "e">>, <<"k", "y">>, <<"i">>>> >>,
  <<<<"o", "w">>, <<<<"o", "u">>, <<"o", "w">>>> >>,
  <<<<"o", "u">>, <<<<"o", "w">>, <<"o", "u">>>> >>,
  <<<<"i", "n", "g">>, <<<<"i", "n", "g">>>> >>,
  <<<<"t", "r", "o">>, <<<<"t", "r", "o">>, <<"n", "t", "o">>, <<"a", "t", "o">>, <<"e", "t", "o">>, <<"o", "t", "o">>>> >>,
  <<<<"n", "t", "o">>, <<<<"t", "r", "o">>, <<"n", "t", "o">>, <<"a", "t", "o">>, <<"e", "t", "o">>, <<"o", "t", "o">>>> >>,
  <<<<"a", "t", "o">>, <<<<"t", "r", "o">>, <<"n", "t", "o">>, <<"a", "t", "o">>, <<"e", "t", "o">>, <<"o", "t", "o">>>> >>,
  <<<<"e", "t", "o">>, <<<<"t", "r", "o">>, <<"n", "t", "o">>, <<"a", "t", "o">>, <<"e", "t", "o">>, <<"o", "t", "o">>>> >>,
  <<<<"o", "t", "o">>, <<<<"t", "r", "o">>, <<"n", "t", "o">>, <<"a", "t", "o">>, <<"e", "t", "o">>, <<"o", "t", "o">>>> >>,
  <<<<"i", "c", "o">>, <<<<"i", "c", "o">>, <<"i", "t", "o">>>> >>,
  <<<<"i", "t", "o">>, <<<<"i", "c", "o">>, <<"i", "t", "o">>>> >>,
  <<<<"i", "c">>, <<<<"i", "c">>, <<"k", "e", "e">>>> >>,
  <<<<"k", "e", "e">>, <<<<"i", "c">>, <<"k", "e", "e">>>> >>,
  <<<<"i", "g", "h", "t">>, <<<<"i", "t", "e">>, <<"i", "g", "h", "t">>>> >>,
  <<<<"i", "t", "e">>, <<<<"i", "g", "h", "t">>, <<"i", "t", "e">>>> >> >>

vowelSimilarity == <<
  <<<<"o">>, <<<<"o">>, <<"a", "o">>, <<"e", "o">>, <<"i", "o">>>> >>,
  <<<<"a", "o">>, <<<<"o">>, <<"a", "o">>, <<"e", "o">>, <<"i", "o">>>> >>,
  <<<<"e", "o">>, <<<<"o">>, <<"a", "o">>, <<"e", "o">>, <<"i", "o">>>> >>,
  <<<<"i", "o">>, <<<<"o">>, <<"a", "o">>, <<"e", "o">>, <<"i", "o">>>> >>,
  <<<<"i">>, <<<<"i">>, <<"a", "i">>, <<"e", "i">>>> >>,
  <<<<"a", "i">>, <<<<"i">>, <<"a", "i">>, <<"e", "i">>>> >>,
  <<<<"e", "i">>, <<<<"i">>, <<"a", "i">>, <<"e", "i">>>> >>,
  <<<<"e">>, <<<<"e">>, <<"e", "e">>, <<"i", "e">>>> >>,
  <<<<"e", "e">>, <<<<"e">>, <<"e", "e">>, <<"i", "e">>>> >>,
  <<<<"i", "e">>, <<<<"e">>, <<"e", "e">>, <<"i", "e">>>> >> >>

\* table[syllable] || dflt, for a table whose values are arrays: a syllable
\* that is not a string is converted to a property name no table holds
GroupOf(table, syllable, dflt) ==
  IF IsString(syllable) /\ HasOwn(table, syllable)
    THEN table[CHOOSE i \in 1..Len(table) : table[i][1] = syllable][2]
    ELSE dflt

\* group1.some(g1 => group2.includes(g1))
GroupsMeet(group1, group2) == Range(group1) \cap Range(group2) /= {}

\* syllable.replace(/[bcdfghjklmnpqrstvwxz]/g, '').toLowerCase()
getVowelPattern(syllable) ==
  toLowerCase(SelectSeq(syllable, LAMBDA c : c \notin ConsonantsWithoutY))

\* getVowelPattern calls syllable.replace, which a non-string does not have
checkAssonanceThrows(syllable1, syllable2) == ~IsString(syllable1) \/ ~IsString(syllable2)

checkAssonance(syllable1, syllable2) ==
  LET vowels1 == getVowelPattern(syllable1)
      vowels2 == getVowelPattern(syllable2)
  IN  IF vowels1 /= <<>> /\ vowels2 /= <<>>
        THEN IF vowels1 = vowels2 THEN TRUE
             ELSE LET similar1 == GroupOf(vowelSimilarity, vowels1, <<vowels1>>)
                  IN  vowels2 \in Range(similar1)
        ELSE FALSE

\* TRUE when wordsRhyme reaches checkAssonance (no earlier return)
wordsRhymeReachesAssonance(w1, w2) ==
  LET syllable1 == extractRhymingSyllable(w1)
      syllable2 == extractRhymingSyllable(w2)
  IN  /\ Truthy(syllable1) /\ Truthy(syllable2)
      /\ syllable1 /= syllable2
      /\ ~GroupsMeet(GroupOf(broadRhymeGroups, syllable1, <<syllable1>>),
                     GroupOf(broadRhymeGroups, syllable2, <<syllable2>>))

wordsRhymeThrows(w1, w2) ==
  /\ wordsRhymeReachesAssonance(w1, w2)
  /\ checkAssonanceThrows(extractRhymingSyllable(w1), extractRhymingSyllable(w2))

\* the value wordsRhyme returns when it does not throw
wordsRhyme(w1, w2) ==
  LET syllable1 == extractRhymingSyllable(w1)
      syllable2 == extractRhymingSyllable(w2)
  IN  IF ~Truthy(syllable1) \/ ~Truthy(syllable2) THEN FALSE
      ELSE IF syllable1 = syllable2 THEN TRUE
      ELSE IF GroupsMeet(GroupOf(broadRhymeGroups, syllable1, <<syllable1>>),
                         GroupOf(broadRhymeGroups, syllable2, <<syllable2>>)) THEN TRUE
      ELSE checkAssonance(syllable1, syllable2)

\* words[words.length - 1] || '' of line.trim().split(/\s+/)
getLastWord(line) ==
  LET words == splitWhiteSpace(trim(line))
  IN  words[Len(words)]

-----------------------------------------------------------------------------
(* analyzeRhyme, isPerfectRhyme, isAssonance, isConsonance *)

perfectRhymeGroups == <<
  <<<<"a", "r">>, <<<<"a", "r", "e">>, <<"a", "r">>>> >>,
  <<<<"a", "r", "e">>, <<<<"a", "r">>, <<"a", "r", "e">>>> >>,
  <<<<"i", "g", "h">>, <<<<"y">>, <<"i", "g", "h">>, <<"i", "e">>, <<"k", "y">>, <<"i">>>> >>,
  <<<<"y">>, <<<<"i", "g", "h">>, <<"y">>, <<"i", "e">>, <<"k", "y">>, <<"i">>>> >>,
  <<<<"i", "e">>, <<<<"i", "g", "h">>, <<"y">>, <<"i", "e">>, <<"k", "y">>, <<"i">>>> >>,
  <<<<"k", "y">>, <<<<"i", "g", "h">>, <<"y">>, <<"i", "e">>, <<"k", "y">>, <<"i">>>> >>,
  <<<<"i">>, <<<<"i", "g", "h">>, <<"y">>, <<"i", "e">>, <<"k", "y">>, <<"i">>>> >>,
  <<<<"o", "w">>, <<<<"o", "u">>, <<"o", "w">>>> >>,
  <<<<"o", "u">>, <<<<"o", "w">>, <<"o", "u">>>> >>,
  <<<<"i", "n", "g">>, <<<<"i", "n", "g">>>> >>,
  <<<<"i", "g", "h", "t">>, <<<<"i", "t", "e">>, <<"i", "g", "h", "t">>>> >>,
  <<<<"i", "t", "e">>, <<<<"i", "g", "h", "t">>, <<"i", "t", "e">>>> >> >>

assonanceGroups == <<
  <<<<"t", "r", "o">>, <<<<"n", "t", "o">>, <<"a", "t", "o">>, <<"e", "t", "o">>, <<"o", "t", "o">>>> >>,
  <<<<"n", "t", "o">>, <<<<"t", "r", "o">>, <<"a", "t", "o">>, <<"e", "t", "o">>, <<"o", "t", "o">>>> >>,
  <<<<"a", "t", "o">>, <<<<"t", "r", "o">>, <<"n", "t", "o">>, <<"e", "t", "o">>, <<"o", "t", "o">>>> >>,
  <<<<"e", "t", "o">>, <<<<"t", "r", "o">>, <<"n", "t", "o">>, <<"a", "t", "o">>, <<"o", "t", "o">>>> >>,
  <<<<"o", "t", "o">>, <<<<"t", "r", "o">>, <<"n", "t", "o">>, <<"a", "t", "o">>, <<"e", "t", "o">>>> >>,
  <<<<"i", "c", "o">>, <<<<"i", "t", "o">>>> >>,
  <<<<"i", "t", "o">>, <<<<"i", "c", "o">>>> >>,
  <<<<"i", "c">>, <<<<"k", "e", "e">>>> >>,
  <<<<"k", "e", "e">>, <<<<"i", "c">>>> >> >>

\* a variant of isPerfectRhyme that reads the broad table of wordsRhyme
isPerfectRhymeBroad(syllable1, syllable2) ==
  IF syllable1 = syllable2 THEN TRUE
  ELSE GroupsMeet(GroupOf(broadRhymeGroups, syllable1, <<syllable1>>),
                  GroupOf(broadRhymeGroups, syllable2, <<syllable2>>))

isPerfectRhyme(syllable1, syllable2) ==
  IF syllable1 = syllable2 THEN TRUE
  ELSE GroupsMeet(GroupOf(perfectRhymeGroups, syllable1, <<syllable1>>),
                  GroupOf(perfectRhymeGroups, syllable2, <<syllable2>>))

isAssonance(syllable1, syllable2) ==
  LET group1 == GroupOf(assonanceGroups, syllable1, <<>>)
      group2 == GroupOf(assonanceGroups, syllable2, <<>>)
  IN  syllable2 \in Range(group1) \/ syllable1 \in Range(group2)

\* syllable.match(/[bcdfghjklmnpqrstvwxyz]+$/): the trailing run of consonants
RECURSIVE getEndingConsonants(_)
getEndingConsonants(syllable) ==
  IF syllable /= <<>> /\ syllable[Len(syllable)] \in ConsonantsWithY
    THEN Append(getEndingConsonants(SubSeq(syllable, 1, Len(syllable) - 1)),
                syllable[Len(syllable)])
    ELSE <<>>

\* getEndingConsonants calls syllable.match, which a non-string does not have
isConsonanceThrows(syllable1, syllable2) == ~IsString(syllable1) \/ ~IsString(syllable2)

\* a variant of isConsonance that accepts a cluster that ends the other one
isConsonanceOneSided(syllable1, syllable2) ==
  LET consonants1 == getEndingConsonants(syllable1)
      consonants2 == getEndingConsonants(syllable2)
  IN  Len(consonants1) > 0 /\ endsWith(consonants2, consonants1)

isConsonance(syllable1, syllable2) ==
  LET consonants1 == getEndingConsonants(syllable1)
      consonants2 == getEndingConsonants(syllable2)
  IN  Len(consonants1) > 0 /\ consonants1 = consonants2

\* TRUE when analyzeRhyme reaches isConsonance (no earlier return)
analyzeRhymeReachesConsonance(w1, w2) ==
  LET syllable1 == extractRhymingSyllable(w1)
      syllable2 == extractRhymingSyllable(w2)
  IN  /\ Truthy(syllable1) /\ Truthy(syllable2)
      /\ ~isPerfectRhyme(syllable1, syllable2)
      /\ ~isAssonance(syllable1, syllable2)

analyzeRhymeThrows(w1, w2) ==
  /\ analyzeRhymeReachesConsonance(w1, w2)
  /\ isConsonanceThrows(extractRhymingSyllable(w1), extractRhymingSyllable(w2))

\* the value analyzeRhyme returns when it does not throw
analyzeRhyme(w1, w2) ==
  LET syllable1 == extractRhymingSyllable(w1)
      syllable2 == extractRhymingSyllable(w2)
  IN  IF ~Truthy(syllable1) \/ ~Truthy(syllable2) THEN [rhymes |-> FALSE, type |-> "none"]
      ELSE IF isPerfectRhyme(syllable1, syllable2) THEN [rhymes |-> TRUE, type |-> "rhyme"]
      ELSE IF isAssonance(syllable1, syllable2) THEN [rhymes |-> TRUE, type |-> "assonance"]
      ELSE IF isConsonance(syllable1, syllable2) THEN [rhymes |-> TRUE, type |-> "consonance"]
      ELSE [rhymes |-> FALSE, type |-> "none"]

-----------------------------------------------------------------------------
(* countSyllables, countSinalefe, isVowel, countWordSyllables *)

\* JavaScript values of the syllable counts: a number, NaN, or the function
\* an inherited property yields
JSNumber(n) == [type |-> "number", value |-> n]
JSNaN == [type |-> "NaN", value |-> 0]
JSFunction == [type |-> "function", value |-> 0]
JSUndefined == [type |-> "undefined", value |-> 0]

IsInteger(v) == v.type = "number"

Max(a, b) == IF a >= b THEN a ELSE b

syllableSpecialCases == <<
  <<<<"t", "h", "e">>, 1>>, <<<<"a">>, 1>>, <<<<"a", "n">>, 1>>, <<<<"a", "n", "d">>, 1>>, <<<<"o", "r">>, 1>>,
  <<<<"b", "u", "t">>, 1>>, <<<<"i", "n">>, 1>>, <<<<"o", "n">>, 1>>, <<<<"a", "t">>, 1>>, <<<<"t", "o">>, 1>>,
  <<<<"f", "o", "r">>, 1>>, <<<<"o", "f">>, 1>>, <<<<"w", "i", "t", "h">>, 1>>, <<<<"b", "y">>, 1>>, <<<<"f", "r", "o", "m">>, 1>>,
  <<<<"u", "p">>, 1>>, <<<<"a", "b", "o", "u", "t">>, 2>>, <<<<"i", "n", "t", "o">>, 2>>, <<<<"o", "v", "e", "r">>, 2>>,
  <<<<"a", "f", "t", "e", "r">>, 2>>, <<<<"t", "h", "r", "o", "u", "g", "h">>, 1>>, <<<<"d", "u", "r", "i", "n", "g">>, 2>>, <<<<"b", "e", "f", "o", "r", "e">>, 2>>,
  <<<<"u", "n", "d", "e", "r">>, 2>>, <<<<"b", "e", "t", "w", "e", "e", "n">>, 2>>, <<<<"a", "m", "o", "n", "g">>, 2>>,
  <<<<"i", "l">>, 1>>, <<<<"l", "a">>, 1>>, <<<<"l", "e">>, 1>>, <<<<"l", "o">>, 1>>, <<<<"g", "l", "i">>, 1>>,
  <<<<"i">>, 1>>, <<<<"u", "n">>, 1>>, <<<<"u", "n", "a">>, 1>>, <<<<"d", "e", "l">>, 1>>, <<<<"d", "e", "l", "l", "a">>, 2>>,
  <<<<"d", "e", "l", "l", "e">>, 2>>, <<<<"n", "e", "l">>, 1>>, <<<<"n", "e", "l", "l", "a">>, 2>>, <<<<"n", "e", "l", "l", "e">>, 2>>,
  <<<<"c", "o", "n">>, 1>>, <<<<"p", "e", "r">>, 1>>, <<<<"c", "h", "e">>, 1>>, <<<<"n", "o", "n">>, 1>>,
  <<<<"p", "i", "ugrave">>, 1>>, <<<<"s", "o", "n", "o">>, 2>>, <<<<"q", "u", "a", "n", "d", "o">>, 2>>, <<<<"c", "o", "m", "e">>, 2>>,
  <<<<"d", "o", "v", "e">>, 2>>, <<<<"p", "e", "r", "c", "h", "eacute">>, 2>>, <<<<"a", "n", "c", "h", "e">>, 2>>,
  <<<<"z", "i", "o", "n">>, 2>>, <<<<"s", "c", "r", "i", "t", "t", "e">>, 2>> >>

\* specialCases[cleanWord] of countWordSyllables: an own entry, else the
\* property inherited from Object.prototype that an [a-z]-only key can name
syllablePropertyRead(cleanWord) ==
  IF HasOwn(syllableSpecialCases, cleanWord)
    THEN JSNumber(syllableSpecialCases[
           CHOOSE i \in 1..Len(syllableSpecialCases) :
             syllableSpecialCases[i][1] = cleanWord][2])
  ELSE IF cleanWord = <<"c", "o", "n", "s", "t", "r", "u", "c", "t", "o", "r">> THEN JSFunction
  ELSE JSUndefined

\* the string 'aeiou' followed by the ten accented vowels
SyllableVowels == PlainVowels \cup AccentedVowels

\* the alternatives of the regular expression englishPatterns
englishPatterns == {
  <<"t", "h", "e">>, <<"a", "r", "e">>, <<"h", "e", "r", "e">>, <<"t", "h", "e", "r", "e">>, <<"w", "h", "e", "r", "e">>, <<"m", "o", "r", "e">>,
  <<"b", "e", "f", "o", "r", "e">>, <<"w", "h", "i", "l", "e">>, <<"o", "n", "c", "e">>, <<"s", "o", "m", "e">>, <<"c", "o", "m", "e">>, <<"h", "o", "m", "e">>,
  <<"m", "a", "k", "e">>, <<"t", "a", "k", "e">>, <<"g", "i", "v", "e">>, <<"h", "a", "v", "e">>, <<"l", "o", "v", "e">>, <<"m", "o", "v", "e">>,
  <<"d", "a", "n", "c", "e">>, <<"c", "h", "a", "n", "g", "e">>, <<"l", "a", "r", "g", "e">>, <<"w", "h", "i", "t", "e">>, <<"l", "i", "t", "t", "l", "e">>, <<"s", "i", "m", "p", "l", "e">>,
  <<"w", "h", "o", "l", "e">>, <<"s", "t", "y", "l", "e">>, <<"s", "m", "i", "l", "e">>, <<"w", "r", "i", "t", "e">>, <<"q", "u", "i", "t", "e">>, <<"c", "l", "o", "s", "e">>,
  <<"c", "h", "o", "s", "e">>, <<"h", "o", "p", "e">>, <<"n", "o", "t", "e">>, <<"v", "o", "t", "e">>, <<"p", "l", "a", "c", "e">>, <<"f", "a", "c", "e">>,
  <<"s", "p", "a", "c", "e">>, <<"r", "a", "c", "e">>, <<"n", "i", "c", "e">>, <<"p", "r", "i", "c", "e">>, <<"t", "w", "i", "c", "e">>, <<"s", "i", "z", "e">>,
  <<"w", "i", "s", "e">>, <<"r", "i", "s", "e">>, <<"p", "r", "i", "z", "e">>, <<"l", "o", "s", "e">>, <<"u", "s", "e">>, <<"h", "o", "u", "s", "e">>,
  <<"m", "o", "u", "s", "e">>, <<"c", "o", "u", "r", "s", "e">>, <<"n", "u", "r", "s", "e">>, <<"h", "o", "r", "s", "e">>, <<"f", "o", "r", "c", "e">>, <<"s", "o", "u", "r", "c", "e">>,
  <<"s", "i", "n", "c", "e">>, <<"p", "r", "i", "n", "c", "e">>, <<"f", "e", "n", "c", "e">>, <<"d", "a", "n", "c", "e">>, <<"c", "h", "a", "n", "c", "e">>, <<"f", "r", "a", "n", "c", "e">>,
  <<"s", "e", "n", "s", "e">>, <<"d", "e", "n", "s", "e">>, <<"t", "e", "n", "s", "e">>, <<"i", "n", "t", "e", "n", "s", "e">>, <<"t", "h", "e", "s", "e">>, <<"c", "o", "m", "p", "l", "e", "t", "e">>,
  <<"c", "o", "m", "p", "e", "t", "e">>, <<"d", "e", "l", "e", "t", "e">>, <<"c", "o", "n", "c", "r", "e", "t", "e">>, <<"d", "i", "s", "c", "r", "e", "t", "e">>, <<"e", "x", "t", "r", "e", "m", "e">>, <<"s", "u", "p", "r", "e", "m", "e">>,
  <<"s", "c", "e", "n", "e">>, <<"t", "h", "e", "m", "e">>, <<"s", "c", "h", "e", "m", "e">>, <<"g", "e", "n", "e">>, <<"s", "e", "r", "e", "n", "e">>, <<"o", "b", "s", "c", "e", "n", "e">>,
  <<"m", "a", "c", "h", "i", "n", "e">>, <<"m", "a", "r", "i", "n", "e">>, <<"r", "o", "u", "t", "i", "n", "e">>, <<"a", "n", "t", "i", "n", "e">>, <<"a", "n", "t", "i", "n", "e">>, <<"g", "e", "n", "u", "i", "n", "e">>,
  <<"c", "o", "m", "b", "i", "n", "e">>, <<"d", "e", "f", "i", "n", "e">>, <<"r", "e", "f", "i", "n", "e">>, <<"d", "e", "c", "l", "i", "n", "e">>, <<"o", "u", "t", "l", "i", "n", "e">>, <<"o", "n", "l", "i", "n", "e">>,
  <<"b", "a", "s", "e", "l", "i", "n", "e">>, <<"h", "e", "a", "d", "l", "i", "n", "e">>, <<"s", "i", "d", "e", "l", "i", "n", "e">>, <<"t", "i", "m", "e", "l", "i", "n", "e">>, <<"p", "i", "p", "e", "l", "i", "n", "e">>, <<"g", "a", "s", "o", "l", "i", "n", "e">>,
  <<"v", "a", "l", "e", "n", "t", "i", "n", "e">>, <<"d", "i", "s", "c", "i", "p", "l", "i", "n", "e">>, <<"m", "e", "d", "i", "c", "i", "n", "e">>, <<"e", "x", "a", "m", "i", "n", "e">>, <<"d", "e", "t", "e", "r", "m", "i", "n", "e">>, <<"i", "m", "a", "g", "i", "n", "e">>,
  <<"e", "n", "g", "i", "n", "e">>, <<"m", "a", "g", "a", "z", "i", "n", "e">>, <<"c", "u", "i", "s", "i", "n", "e">>, <<"v", "a", "c", "c", "i", "n", "e">>, <<"c", "a", "f", "f", "e", "i", "n", "e">>, <<"n", "i", "c", "o", "t", "i", "n", "e">>,
  <<"r", "o", "u", "t", "i", "n", "e">>, <<"d", "o", "c", "t", "r", "i", "n", "e">>, <<"f", "o", "r", "t", "u", "n", "e">>, <<"t", "o", "r", "t", "u", "r", "e">>, <<"f", "u", "t", "u", "r", "e">>, <<"n", "a", "t", "u", "r", "e">>,
  <<"m", "a", "t", "u", "r", "e">>, <<"p", "i", "c", "t", "u", "r", "e">>, <<"c", "u", "l", "t", "u", "r", "e">>, <<"c", "a", "p", "t", "u", "r", "e">>, <<"m", "e", "a", "s", "u", "r", "e">>, <<"p", "l", "e", "a", "s", "u", "r", "e">>,
  <<"t", "r", "e", "a", "s", "u", "r", "e">>, <<"p", "r", "e", "s", "s", "u", "r", "e">>, <<"e", "x", "p", "o", "s", "u", "r", "e">>, <<"c", "l", "o", "s", "u", "r", "e">>, <<"l", "e", "i", "s", "u", "r", "e">>, <<"s", "e", "i", "z", "u", "r", "e">>,
  <<"f", "a", "i", "l", "u", "r", "e">>, <<"s", "e", "c", "u", "r", "e">>, <<"p", "u", "r", "e">>, <<"s", "u", "r", "e">>, <<"c", "u", "r", "e">>, <<"l", "u", "r", "e">>,
  <<"e", "n", "d", "u", "r", "e">>, <<"o", "b", "s", "c", "u", "r", "e">>, <<"p", "r", "o", "c", "e", "d", "u", "r", "e">>, <<"l", "i", "t", "e", "r", "a", "t", "u", "r", "e">>, <<"t", "e", "m", "p", "e", "r", "a", "t", "u", "r", "e">>, <<"s", "i", "g", "n", "a", "t", "u", "r", "e">>,
  <<"a", "d", "v", "e", "n", "t", "u", "r", "e">>, <<"d", "e", "p", "a", "r", "t", "u", "r", "e">>, <<"f", "u", "r", "n", "i", "t", "u", "r", "e">>, <<"a", "g", "r", "i", "c", "u", "l", "t", "u", "r", "e">>, <<"m", "a", "n", "u", "f", "a", "c", "t", "u", "r", "e">>, <<"a", "r", "c", "h", "i", "t", "e", "c", "t", "u", "r", "e">>,
  <<"l", "e", "g", "i", "s", "l", "a", "t", "u", "r", "e">>, <<"e", "x", "p", "e", "n", "d", "i", "t", "u", "r", "e">>, <<"m", "i", "n", "i", "a", "t", "u", "r", "e">>, <<"c", "a", "r", "i", "c", "a", "t", "u", "r", "e">> }

\* a variant of SeparateVowels that also separates 'a' from 'u'
SeparateVowelsWithAU(prevChar, char) ==
  \/ prevChar = "i" /\ char \in {"a", "e", "o"}
  \/ prevChar = "u" /\ char \in {"a", "e", "i"}
  \/ prevChar = "a" /\ char \in {"i", "u"}
  \/ prevChar = "e" /\ char = "i"
  \/ prevChar = "o" /\ char = "i"

\* the adjacent vowel pairs that start a new syllable
SeparateVowels(prevChar, char) ==
  \/ prevChar = "i" /\ char \in {"a", "e", "o"}
  \/ prevChar = "u" /\ char \in {"a", "e", "i"}
  \/ prevChar = "a" /\ char = "i"
  \/ prevChar = "e" /\ char = "i"
  \/ prevChar = "o" /\ char = "i"

\* the for loop over cleanWord from position i (1-based), with the loop's
\* syllableCount and previousWasVowel
RECURSIVE vowelGroupsFrom(_, _, _, _)
vowelGroupsFrom(cleanWord, i, syllableCount, previousWasVowel) ==
  IF i > Len(cleanWord) THEN syllableCount
  ELSE LET char == cleanWord[i]
           charIsVowel == char \in SyllableVowels
           next == IF charIsVowel /\ ~previousWasVowel THEN syllableCount + 1
                   ELSE IF /\ charIsVowel /\ previousWasVowel
                           /\ SeparateVowels(cleanWord[i - 1], char)
                     THEN syllableCount + 1
                   ELSE syllableCount
       IN  vowelGroupsFrom(cleanWord, i + 1, next, charIsVowel)

\* the silent 'e' adjustment
silentE(cleanWord, syllableCount) ==
  IF /\ endsWith(cleanWord, <<"e">>)
     /\ syllableCount > 1
     /\ Len(cleanWord) >= 2
     /\ cleanWord[Len(cleanWord) - 1] \notin SyllableVowels
     /\ cleanWord \in englishPatterns
    THEN syllableCount - 1
    ELSE syllableCount

\* the -ed adjustment; cleanWord[cleanWord.length - 3] is undefined for a
\* two-letter word, which is neither 't' nor 'd'
endingEd(cleanWord, syllableCount) ==
  IF /\ endsWith(cleanWord, <<"e", "d">>)
     /\ syllableCount > 1
     /\ (Len(cleanWord) < 3 \/ cleanWord[Len(cleanWord) - 2] \notin {"t", "d"})
    THEN syllableCount - 1
    ELSE syllableCount

\* the 'qu' / 'gu' adjustment
italianQuGu(cleanWord, syllableCount) ==
  IF includes(cleanWord, <<"q", "u">>) \/ includes(cleanWord, <<"g", "u">>)
    THEN Max(1, syllableCount)
    ELSE syllableCount

\* word.toLowerCase().replace(/[^a-z]/g, '')
syllableCleanWord(word) == SelectSeq(toLowerCase(word), IsLowerLetter)

countWordSyllables(word) ==
  IF word = <<>> THEN JSNumber(0)
  ELSE LET cleanWord == syllableCleanWord(word)
           special == syllablePropertyRead(cleanWord)
       IN  IF cleanWord = <<>> THEN JSNumber(0)
           ELSE IF special /= JSUndefined THEN special
           ELSE JSNumber(Max(1,
                  italianQuGu(cleanWord,
                    endingEd(cleanWord,
                      silentE(cleanWord, vowelGroupsFrom(cleanWord, 1, 0, FALSE))))))

\* 'aeiouAEIOU'.includes(char)
isVowel(char) == char \in PlainVowels \cup {"A", "E", "I", "O", "U"}

\* the characters the clean-up of countSyllables and countSinalefe keep
\* besides white space: \w, the apostrophe and the accented vowels
IsKeptChar(c) == IsWordChar(c) \/ c = "'" \/ c \in AccentedVowels

\* currentWord.match(/^(l|d|c|n|s|qu|bell)['']/)
startsWithArticle(currentWord) ==
  \E p \in {<<"l">>, <<"d">>, <<"c">>, <<"n">>, <<"s">>, <<"q", "u">>, <<"b", "e", "l", "l">>} :
    startsWith(currentWord, p \o <<"'">>)

\* currentWord.match(/(che|come|dove|non|con|per)$/)
endsWithFunctionWord(currentWord) ==
  \E s \in {<<"c", "h", "e">>, <<"c", "o", "m", "e">>, <<"d", "o", "v", "e">>, <<"n", "o", "n">>, <<"c", "o", "n">>, <<"p", "e", "r">>} :
    endsWith(currentWord, s)

\* the body of the for loop of countSinalefe for the pair words[i], words[i+1]
\* (1-based): TRUE when the pair counts as one elision
elides(words, i) ==
  LET currentWord == SelectSeq(toLowerCase(words[i]), IsKeptChar)
      nextWord == SelectSeq(toLowerCase(words[i + 1]), IsKeptChar)
  IN  /\ currentWord /= <<>> /\ nextWord /= <<>>
      /\ LET lastChar == currentWord[Len(currentWord)]
             firstChar == nextWord[1]
         IN  /\ isVowel(lastChar) /\ isVowel(firstChar)
             /\ \/ lastChar = "i" \/ lastChar = "u" \/ firstChar = "i" \/ firstChar = "u"
                \/ lastChar = firstChar
                \/ startsWithArticle(currentWord)
                \/ endsWithFunctionWord(currentWord)
                \/ endsWith(currentWord, <<"o">>) /\ firstChar = "a"
                \/ endsWith(currentWord, <<"a">>) /\ firstChar \in {"i", "e"}
                \/ endsWith(currentWord, <<"e">>) /\ firstChar \in {"a", "i"}

countSinalefe(words) == Cardinality({i \in 1..(Len(words) - 1) : elides(words, i)})

\* text.toLowerCase().replace(/[^\w\s'...]/g, ' ').trim()
cleanText(text) ==
  trim([i \in 1..Len(text) |->
          LET c == LowerChar(text[i])
          IN  IF IsKeptChar(c) \/ c \in WhiteSpace THEN c ELSE " "])

\* cleanText.split(/\s+/).filter(word => word.length > 0)
syllableWords(text) == SelectSeq(splitWhiteSpace(cleanText(text)), NonEmpty)

\* the sum the forEach of countSyllables accumulates, when every addend is a number
RECURSIVE sumWordSyllables(_)
sumWordSyllables(words) ==
  IF words = <<>> THEN 0
  ELSE countWordSyllables(Head(words)).value + sumWordSyllables(Tail(words))

\* totalSyllables += f for a function f makes totalSyllables a string, and
\* the subtraction of the elisions makes it NaN, which Math.max returns
countSyllables(text) ==
  IF text = <<>> THEN JSNumber(0)
  ELSE LET words == syllableWords(text)
       IN  IF Len(words) = 0 THEN JSNumber(0)
           ELSE IF \E i \in 1..Len(words) : ~IsInteger(countWordSyllables(words[i]))
             THEN JSNaN
           ELSE JSNumber(Max(1, sumWordSyllables(words) - countSinalefe(words)))

-----------------------------------------------------------------------------
(* LyricsParser: splitIntoStanzas, parseStanzaIntoVerses *)

\* a variant of stanzaSeparators for the pattern /\n\n/
stanzaSeparatorsStrict(s) ==
  {<<i, i + 1>> : i \in {k \in 1..(Len(s) - 1) : s[k] = "\n" /\ s[k + 1] = "\n"}}

\* the matches of /\n\s*\n/ in s, found from left to right: \s* is greedy, so
\* in each maximal run of white space with two or more newlines the match
\* goes from the first newline of the run to the last
stanzaSeparators(s) ==
  {<<CHOOSE k \in newlines : \A m \in newlines : k <= m,
     CHOOSE k \in newlines : \A m \in newlines : m <= k>> :
     newlines \in {N \in {{k \in run[1]..run[2] : s[k] = "\n"} : run \in whiteSpaceRuns(s)} :
                    Cardinality(N) >= 2}}

MapTrim(pieces) == [i \in 1..Len(pieces) |-> trim(pieces[i])]

splitIntoStanzas(text) ==
  SelectSeq(MapTrim(splitFrom(text, 1, stanzaSeparators(text))), NonEmpty)

\* the lines of a stanza: split('\n'), trimmed, the empty ones dropped
stanzaLines(stanzaText) == SelectSeq(MapTrim(splitNewline(stanzaText)), NonEmpty)

parseStanzaIntoVerses(stanzaText) ==
  LET lines == stanzaLines(stanzaText)
  IN  [lineIndex \in 1..Len(lines) |->
         [index |-> lineIndex,
          text |-> lines[lineIndex],
          rhyme_index |-> <<>>,
          rhyming_syllable |-> extractRhymingSyllable(getLastWord(lines[lineIndex])),
          rhyme_type |-> "",
          syllable_count |-> countSyllables(lines[lineIndex])]]

-----------------------------------------------------------------------------
(* LyricsParser: determineRhymePattern *)

\* the characters of the code units 65, 66, ..., 126; "grave" is the grave
\* accent, code unit 96
CharsFrom65 ==
  UpperLetters \o <<"[", "\\", "]", "^", "_", "grave">> \o LowerLetters
    \o <<"{", "|", "}", "~">>

\* String.fromCharCode(code)
fromCharCode(code) == <<CharsFrom65[code - 64]>>

\* a variant of newRhymeIndex that starts at the lower-case letters
newRhymeIndexLowerCase(n) == fromCharCode(97 + n)

\* a variant of newRhymeIndex that starts one code unit late
newRhymeIndexFromB(n) == fromCharCode(66 + n)

\* the label of the group opened when n groups exist
newRhymeIndex(n) == fromCharCode(65 + n)

\* the analysis of the for loop's iteration i (0-based) for the verse at
\* `at` (0-based)
previousAnalysis(vs, i, at) ==
  analyzeRhyme(getLastWord(vs[i + 1].text), getLastWord(vs[at + 1].text))

previousThrows(vs, i, at) ==
  analyzeRhymeThrows(getLastWord(vs[i + 1].text), getLastWord(vs[at + 1].text))

\* a variant of scanStops that does not scan for the last verse of the stanza
scanStopsButLast(vs, at) ==
  IF at = Len(vs) - 1 THEN {}
  ELSE {i \in 0..(at - 1) : previousThrows(vs, i, at) \/ previousAnalysis(vs, i, at).rhymes}

\* a variant of scanStops whose loop starts at i = 1
scanStopsFromSecond(vs, at) ==
  {i \in 1..(at - 1) : previousThrows(vs, i, at) \/ previousAnalysis(vs, i, at).rhymes}

\* the iterations of `for (let i = 0; i < index; i++)` that end the loop: by
\* the break after a match, or by the TypeError of analyzeRhyme
scanStops(vs, at) ==
  {i \in 0..(at - 1) : previousThrows(vs, i, at) \/ previousAnalysis(vs, i, at).rhymes}

\* a variant of Min for a loop that keeps scanning after a match
Latest(S) == CHOOSE x \in S : \A y \in S : y <= x

Min(S) == CHOOSE x \in S : \A y \in S : x <= y

\* a variant of updatedType that does not record a consonance
updatedTypeWithoutConsonance(currentGroupType, analysisType) ==
  IF analysisType = "rhyme" THEN "rhyme"
  ELSE IF analysisType = "assonance" /\ currentGroupType /= "rhyme" THEN "assonance"
  ELSE currentGroupType

\* a variant of updatedType in which assonance fills "none" only
updatedTypeFillOnly(currentGroupType, analysisType) ==
  IF analysisType = "rhyme" THEN "rhyme"
  ELSE IF analysisType = "assonance" /\ currentGroupType = "none" THEN "assonance"
  ELSE IF analysisType = "consonance" /\ currentGroupType = "none" THEN "consonance"
  ELSE currentGroupType

\* a variant of updatedType in which consonance overwrites all but "rhyme"
updatedTypeConsonanceOverwrites(currentGroupType, analysisType) ==
  IF analysisType = "rhyme" THEN "rhyme"
  ELSE IF analysisType = "assonance" /\ currentGroupType /= "rhyme" THEN "assonance"
  ELSE IF analysisType = "consonance" /\ currentGroupType /= "rhyme" THEN "consonance"
  ELSE currentGroupType

\* the group's type after a verse joins with the given analysis type
updatedType(currentGroupType, analysisType) ==
  IF analysisType = "rhyme" THEN "rhyme"
  ELSE IF analysisType = "assonance" /\ currentGroupType /= "rhyme" THEN "assonance"
  ELSE IF analysisType = "consonance" /\ currentGroupType = "none" THEN "consonance"
  ELSE currentGroupType

\* a variant of finalType that blanks the groups of two verses as well
finalTypePairsBlank(group) ==
  IF Len(group.verses) <= 2 THEN ""
  ELSE IF group.type = "none" THEN "rhyme" ELSE group.type

\* a variant of finalType without the test for a single member
finalTypeAnySize(group) ==
  IF group.type = "none" THEN "rhyme" ELSE group.type

\* the type written to the members of a group
finalType(group) ==
  IF Len(group.verses) = 1 THEN ""
  ELSE IF group.type = "none" THEN "rhyme" ELSE group.type

\* Object.keys(rhymeGroups).forEach: the keys in insertion order are the
\* labels of 0, 1, ..., n - 1; a verse gets the type of the last group that
\* lists it
applyTypes(vs, groups, n) ==
  [v \in 1..Len(vs) |->
     LET owners == {k \in 0..(n - 1) : (v - 1) \in Range(groups[newRhymeIndex(k)].verses)}
     IN  IF owners = {} THEN vs[v]
         ELSE LET last == CHOOSE k \in owners : \A o \in owners : o <= k
              IN  [vs[v] EXCEPT !.rhyme_type = finalType(groups[newRhymeIndex(last)])]]

\* strings.join(separator)
RECURSIVE join(_, _)
join(strings, separator) ==
  IF strings = <<>> THEN <<>>
  ELSE IF Len(strings) = 1 THEN strings[1]
  ELSE strings[1] \o separator \o join(Tail(strings), separator)

\* the pattern of a stanza joined with the separator of Array.prototype.join
\* when none is given
rhymePatternWithCommas(indices) == join(indices, <<",">>)

\* rhymeIndices.join('')
rhymePattern(indices) == join(indices, <<>>)

-----------------------------------------------------------------------------
(* Inputs *)

\* the number of lines of the generated lyrics
MaxVerses == 3

\* the length of the generated strings
MaxLen == 3

\* the lines the generated lyrics are made of; the empty line and the blank
\* line separate stanzas
LineVocabulary == {
  <<"R", "o", "s", "e", "s", " ", "a", "r", "e", " ", "r", "e", "d">>, <<"a", " ", "k", "i", "d">>, <<"m", "y", " ", "S", "t", "a", "r">>, <<"w", "e", " ", "c", "a", "r", "e">>, <<"i", "l", " ", "f", "i", "l", "t", "r", "o">>,
  <<"u", "n", " ", "d", "i", "p", "i", "n", "t", "o">>, <<"!", "!", "!">>, <<"c", "o", "n", "s", "t", "r", "u", "c", "t", "o", "r">>, <<>>, <<" ", " ">> }

RosesAreRed ==
  <<"R", "o", "s", "e", "s", " ", "a", "r", "e", " ", "r", "e", "d", "\n", "V", "i", "o", "l", "e", "t", "s", " ", "a", "r", "e", " ", "b", "l", "u", "e", "\n", "S", "u", "g", "a", "r", " ", "i", "s", " ", "s", "w", "e", "e", "t", "\n", "A", "n", "d", " ", "s", "o", " ", "a", "r", "e", " ", "y", "o", "u">>

TheCatInTheHat ==
  <<"T", "h", "e", " ", "c", "a", "t", " ", "i", "n", " ", "t", "h", "e", " ", "h", "a", "t", "\n", "M", "a", "k", "e", "s", " ", "m", "e", " ", "l", "a", "u", "g", "h", " ", "t", "o", "d", "a", "y", "\n", "T", "h", "e", " ", "m", "o", "o", "n", " ", "s", "h", "i", "n", "e", "s", " ", "b", "r", "i", "g", "h", "t", "\n", "I", "n", " ", "t", "h", "e", " ", "p", "a", "l", "e", " ", "m", "o", "o", "n", "l", "i", "g", "h", "t">>

\* twenty-eight lines, no two of which rhyme
TwentyEightLines == join(<<
  <<"b", "a">>, <<"b", "e">>, <<"b", "o">>, <<"b", "u">>, <<"c", "a">>, <<"c", "e">>, <<"c", "o">>, <<"c", "u">>, <<"d", "a">>, <<"d", "e">>,
  <<"d", "o">>, <<"d", "u">>, <<"f", "a">>, <<"f", "e">>, <<"f", "o">>, <<"f", "u">>, <<"g", "a">>, <<"g", "e">>, <<"g", "o">>, <<"g", "u">>,
  <<"h", "a">>, <<"h", "e">>, <<"h", "o">>, <<"h", "u">>, <<"j", "a">>, <<"j", "e">>, <<"j", "o">>, <<"j", "u">> >>, <<"\n">>)

\* the first twenty-six lines of TwentyEightLines
TwentySixLines == SubSeq(TwentyEightLines, 1, 3 * 26 - 1)

\* three stanzas with indented lines, a tabulation, a carriage return, a
\* blank line of white space and two empty lines
IndentedStanzas == <<" ", "a", " ", "k", "i", "d", " ", "\t", "\n", " ", "\t", " ", "\n", " ", " ", "m", "y", " ", "S", "t", "a", "r", "\r", "\n", "w", "e", " ", "c", "a", "r", "e", " ", " ", "\n", "\n", "\n", "!", "!", "!", "\n">>

\* last words whose keys are the five keys tro, nto, ato, eto, oto
ItalianOWords == {<<"f", "i", "l", "t", "r", "o">>, <<"d", "i", "p", "i", "n", "t", "o">>, <<"g", "a", "t", "o">>, <<"v", "e", "t", "o">>, <<"f", "o", "t", "o">>}

\* the two-verse stanzas over ItalianOWords
ItalianOStanzas == {join(<<a, b>>, <<"\n">>) : a, b \in ItalianOWords}

\* three verses of which "topic" is related to both others (consonance with
\* "mac", assonance with "milwaukee") and the others are unrelated, in every order
TopicStanzas ==
  {join(lines, <<"\n">>) :
     lines \in {l \in [1..3 -> {<<"t", "o", "p", "i", "c">>, <<"m", "a", "c">>, <<"m", "i", "l", "w", "a", "u", "k", "e", "e">>}] :
                  \A i, j \in 1..3 : i /= j => l[i] /= l[j]}}

\* a verse that joins a group of type "rhyme" by consonance
StarCareHer == <<"m", "y", " ", "S", "t", "a", "r", "\n", "w", "e", " ", "c", "a", "r", "e", "\n", "h", "e", "r">>

\* the first k lines of a text
firstLines(text, k) == join(SubSeq(splitNewline(text), 1, k), <<"\n">>)

\* two stanzas of which the first is the first k lines of the second
PrefixStanzas ==
  {firstLines(text, k) \o <<"\n", "\n">> \o text :
     text \in TopicStanzas \cup {StarCareHer, RosesAreRed, TheCatInTheHat},
     k \in 1..3}
    \cup {TwentySixLines \o <<"\n", "\n">> \o TwentyEightLines}

Lyrics ==
  {join(lines, <<"\n">>) : lines \in UNION {[1..n -> LineVocabulary] : n \in 0..MaxVerses}}
    \cup {RosesAreRed, TheCatInTheHat, TwentySixLines, TwentyEightLines, StarCareHer,
          IndentedStanzas}
    \cup ItalianOStanzas \cup TopicStanzas \cup PrefixStanzas

\* the characters of the generated strings
GeneratedChars == {"a", "i", "d", " ", "!"}

GeneratedStrings == UNION {[1..n -> GeneratedChars] : n \in 0..MaxLen}

\* words that reach every key of the rhyme tables a word can reach
KeyWords == {
  <<"s", "t", "a", "r">>, <<"c", "a", "r", "e">>, <<"d", "a", "y">>, <<"t", "h", "e", "y">>, <<"f", "a", "i">>, <<"h", "i", "g", "h">>, <<"y">>, <<"i", "e">>, <<"k", "y">>,
  <<"c", "o", "w">>, <<"y", "o", "u">>, <<"s", "i", "n", "g">>, <<"f", "i", "l", "t", "r", "o">>, <<"d", "i", "p", "i", "n", "t", "o">>, <<"g", "a", "t", "o">>, <<"v", "e", "t", "o">>, <<"f", "o", "t", "o">>,
  <<"a", "m", "i", "c", "o">>, <<"s", "p", "a", "r", "i", "t", "o">>, <<"t", "o", "p", "i", "c">>, <<"m", "i", "l", "w", "a", "u", "k", "e", "e">>, <<"l", "i", "g", "h", "t">>, <<"k", "i", "t", "e">>, <<"r", "e", "d">>,
  <<"k", "i", "d">>, <<"h", "a", "n", "d">>, <<"b", "l", "u", "e">>, <<"!", "!", "!">>, <<>>, <<"c", "o", "n", "s", "t", "r", "u", "c", "t", "o", "r">>, <<"_", "_", "p", "r", "o", "t", "o", "_", "_">>,
  <<"i", "o">>, <<"s", "e", "e">> }

\* the keys of the two exception tables
SpecialCaseWords ==
  {rhymeSpecialCases[i][1] : i \in 1..Len(rhymeSpecialCases)}
    \cup {syllableSpecialCases[i][1] : i \in 1..Len(syllableSpecialCases)}

OtherWords == {
  <<"I">>, <<"M", "y">>, <<"t", "r", "u", "e">>, <<"c", "a", "t">>, <<"m", "a", "c">>, <<"S", "t", "a", "r", "!">>, <<"a", "1">>, <<"c", "i", "a", "o">>, <<"h", "e">>,
  <<"s", "w", "e", "e", "t">>, <<"t", "o", "d", "a", "y">>, <<"b", "r", "i", "g", "h", "t">>, <<"m", "o", "o", "n", "l", "i", "g", "h", "t">>, <<"c", "i", "t", "t", "agrave">> }

\* lines for countSyllables
KeyLines == {
  <<"l", "a", " ", "a", "m", "i", "c", "a">>, <<"l", "'", "a", "l", "b", "a", " ", "s", "e", "n", "z", "a", " ", "i", "l", " ", "f", "i", "l", "t", "r", "o">>, <<"c", "o", "m", "e", " ", "i", "l", " ", "s", "o", "l", "e">>, <<"w", "a", "n", "t", "e", "d", " ", "l", "o", "v", "e", "d">>,
  <<"p", "i", "ugrave", " ", "c", "i", "t", "t", "agrave">>, <<"p", "e", "r", "c", "h", "eacute">>, <<"1", "2", "3", " ", "_", " ", "'">>, <<"q", "u", "a", "n", "d", "o", " ", "g", "u", "i", "d", "a">>,
  <<"t", "h", "e", " ", "c", "o", "n", "s", "t", "r", "u", "c", "t", "o", "r">>, <<"m", "a", "k", "e">>, <<"M", "a", "k", "e", " ", "m", "e", " ", "s", "m", "i", "l", "e">>, <<"?", "!">> }

\* two-word phrases, with and without a vowel at the boundary
ElisionFirstWords == {<<"l", "a">>, <<"u", "n", "a">>, <<"B", "e", "l", "l", "a">>, <<"i", "o">>, <<"c", "h", "e">>, <<"c", "a", "f", "f", "egrave">>, <<"p", "i", "ugrave">>}

ElisionSecondWords == {<<"a", "m", "i", "c", "a">>, <<"a">>, <<"O", "n", "d", "a">>, <<"e", "r", "a">>, <<"egrave", "r", "a">>, <<"ugrave", "a">>, <<"egrave">>}

ElisionPhrases == {w1 \o <<" ">> \o w2 : w1 \in ElisionFirstWords, w2 \in ElisionSecondWords}

Words ==
  GeneratedStrings \cup KeyWords \cup SpecialCaseWords \cup OtherWords
    \cup KeyLines \cup LineVocabulary \cup ElisionFirstWords \cup ElisionSecondWords
    \cup ElisionPhrases

-----------------------------------------------------------------------------
(* parseLyrics as a state machine: the split, then for each stanza the    *)
(* parse into verses, one step per verse of the grouping pass, and the    *)
(* finalization that pushes the stanza.                                    *)

\* lyrics.split(...).map(...).filter(...) of parseLyrics
SplitIntoStanzas ==
  /\ pc = "split"
  /\ stanzas' = splitIntoStanzas(lyrics)
  /\ pc' = IF splitIntoStanzas(lyrics) = <<>> THEN "done" ELSE "parse"
  /\ UNCHANGED <<lyrics, stanzaIndex, verses, index, rhymeGroups, rhymeIndices,
                 currentRhymeIndex, parsedStanzas>>
  /\ UNCHANGED utilVars

\* a stanzas.forEach callback up to the start of the verses.forEach
ParseStanza ==
  /\ pc = "parse"
  /\ verses' = parseStanzaIntoVerses(stanzas[stanzaIndex + 1])
  /\ rhymeGroups' = <<>>
  /\ rhymeIndices' = <<>>
  /\ currentRhymeIndex' = 0
  /\ index' = 0
  /\ pc' = "group"
  /\ UNCHANGED <<lyrics, stanzas, stanzaIndex, parsedStanzas>>
  /\ UNCHANGED utilVars

\* a verses.forEach callback that finds a rhyme with the previous verse i
JoinGroup(i) ==
  LET rhymeAnalysis == previousAnalysis(verses, i, index)
      rhymeIndex == rhymeIndices[i + 1]
      group == rhymeGroups[rhymeIndex]
  IN  /\ rhymeIndices' = Append(rhymeIndices, rhymeIndex)
      /\ verses' = [verses EXCEPT ![index + 1].rhyme_index = rhymeIndex]
      /\ rhymeGroups' =
           [rhymeGroups EXCEPT ![rhymeIndex] =
              [verses |-> Append(group.verses, index),
               type |-> updatedType(group.type, rhymeAnalysis.type)]]
      /\ UNCHANGED currentRhymeIndex

\* a verses.forEach callback that finds no rhyme
OpenGroup ==
  LET label == newRhymeIndex(currentRhymeIndex)
  IN  /\ rhymeIndices' = Append(rhymeIndices, label)
      /\ verses' = [verses EXCEPT ![index + 1].rhyme_index = label]
      /\ rhymeGroups' = (label :> [verses |-> <<index>>, type |-> "none"]) @@ rhymeGroups
      /\ currentRhymeIndex' = currentRhymeIndex + 1

\* one verses.forEach callback of determineRhymePattern; the TypeError of
\* analyzeRhyme ends parseLyrics
GroupVerse ==
  /\ pc = "group"
  /\ index < Len(verses)
  /\ LET stops == scanStops(verses, index)
     IN  IF stops /= {} /\ previousThrows(verses, Min(stops), index)
           THEN /\ pc' = "threw"
                /\ UNCHANGED <<verses, index, rhymeGroups, rhymeIndices, currentRhymeIndex>>
           ELSE /\ pc' = "group"
                /\ index' = index + 1
                /\ IF stops /= {} THEN JoinGroup(Min(stops)) ELSE OpenGroup
  /\ UNCHANGED <<lyrics, stanzas, stanzaIndex, parsedStanzas>>
  /\ UNCHANGED utilVars

\* the end of determineRhymePattern and of the stanzas.forEach callback
Finalize ==
  /\ pc = "group"
  /\ index = Len(verses)
  /\ verses' = applyTypes(verses, rhymeGroups, currentRhymeIndex)
  /\ parsedStanzas' =
       Append(parsedStanzas,
              [index |-> stanzaIndex + 1,
               verses |-> applyTypes(verses, rhymeGroups, currentRhymeIndex),
               rhyme_pattern |-> rhymePattern(rhymeIndices)])
  /\ stanzaIndex' = stanzaIndex + 1
  /\ pc' = IF stanzaIndex + 1 < Len(stanzas) THEN "parse" ELSE "done"
  /\ UNCHANGED <<lyrics, stanzas, index, rhymeGroups, rhymeIndices, currentRhymeIndex>>
  /\ UNCHANGED utilVars

UtilIdle ==
  /\ fn = "none"
  /\ word1 = <<>>
  /\ word2 = <<>>
  /\ ret = <<>>
  /\ thrown = FALSE

Init ==
  /\ lyrics \in Lyrics
  /\ pc = "split"
  /\ stanzas = <<>>
  /\ stanzaIndex = 0
  /\ verses = <<>>
  /\ index = 0
  /\ rhymeGroups = <<>>
  /\ rhymeIndices = <<>>
  /\ currentRhymeIndex = 0
  /\ parsedStanzas = <<>>
  /\ UtilIdle

Next == SplitIntoStanzas \/ ParseStanza \/ GroupVerse \/ Finalize

Spec == Init /\ [][Next]_vars

-----------------------------------------------------------------------------
(* The exported utility functions, one call at a time *)

CallExtractRhymingSyllable ==
  /\ fn = "none"
  /\ \E word \in Words :
       /\ word1' = word
       /\ ret' = extractRhymingSyllable(word)
  /\ fn' = "extractRhymingSyllable"
  /\ UNCHANGED <<word2, thrown>>
  /\ UNCHANGED parserVars

CallCountSyllables ==
  /\ fn = "none"
  /\ \E text \in Words :
       /\ word1' = text
       /\ ret' = countSyllables(text)
  /\ fn' = "countSyllables"
  /\ UNCHANGED <<word2, thrown>>
  /\ UNCHANGED parserVars

CallWordsRhyme ==
  /\ fn = "none"
  /\ \E w1 \in Words, w2 \in KeyWords :
       /\ word1' = w1
       /\ word2' = w2
       /\ thrown' = wordsRhymeThrows(w1, w2)
       /\ ret' = IF wordsRhymeThrows(w1, w2) THEN <<>> ELSE wordsRhyme(w1, w2)
  /\ fn' = "wordsRhyme"
  /\ UNCHANGED parserVars

CallAnalyzeRhyme ==
  /\ fn = "none"
  /\ \E w1 \in Words, w2 \in KeyWords :
       /\ word1' = w1
       /\ word2' = w2
       /\ thrown' = analyzeRhymeThrows(w1, w2)
       /\ ret' = IF analyzeRhymeThrows(w1, w2) THEN <<>> ELSE analyzeRhyme(w1, w2)
  /\ fn' = "analyzeRhyme"
  /\ UNCHANGED parserVars

\* the call is over and the next one may start
Return ==
  /\ fn /= "none"
  /\ fn' = "none"
  /\ word1' = <<>>
  /\ word2' = <<>>
  /\ ret' = <<>>
  /\ thrown' = FALSE
  /\ UNCHANGED parserVars

InitUtil ==
  /\ lyrics = <<>>
  /\ pc = "idle"
  /\ stanzas = <<>>
  /\ stanzaIndex = 0
  /\ verses = <<>>
  /\ index = 0
  /\ rhymeGroups = <<>>
  /\ rhymeIndices = <<>>
  /\ currentRhymeIndex = 0
  /\ parsedStanzas = <<>>
  /\ UtilIdle

NextUtil ==
  \/ CallExtractRhymingSyllable
  \/ CallCountSyllables
  \/ CallWordsRhyme
  \/ CallAnalyzeRhyme
  \/ Return

SpecUtil == InitUtil /\ [][NextUtil]_vars

-----------------------------------------------------------------------------
(* Properties of parseLyrics (specification Spec) *)

\* the last word of a verse, as determineRhymePattern extracts it
lastWordOf(verse) == getLastWord(verse.text)

\* the typed test reports no relation for the two verses
Unrelated(v1, v2) ==
  /\ ~analyzeRhymeThrows(lastWordOf(v1), lastWordOf(v2))
  /\ ~analyzeRhyme(lastWordOf(v1), lastWordOf(v2)).rhymes

\* the typed test reports a relation for the two verses
Related(v1, v2) ==
  /\ ~analyzeRhymeThrows(lastWordOf(v1), lastWordOf(v2))
  /\ analyzeRhyme(lastWordOf(v1), lastWordOf(v2)).rhymes

\* the broad test reports no relation for the two verses
BroadlyUnrelated(v1, v2) ==
  /\ ~wordsRhymeThrows(lastWordOf(v1), lastWordOf(v2))
  /\ ~wordsRhyme(lastWordOf(v1), lastWordOf(v2))

\* the positions of the verses of a stanza
Positions(stanza) == 1..Len(stanza.verses)

\* the first n letters of the alphabet
FirstLetters(n) == SubSeq(UpperLetters, 1, n)

ParsedStanzas == {parsedStanzas[s] : s \in 1..Len(parsedStanzas)}

\* C1: parseLyrics of "Roses are red / Violets are blue / Sugar is sweet /
\* And so are you" returns one stanza whose rhyme_pattern is "ABCB", the
\* second and the fourth verse sharing group "B".
RosesAreRedIsABCB ==
  (pc = "done" /\ lyrics = RosesAreRed) =>
    /\ Len(parsedStanzas) = 1
    /\ parsedStanzas[1].rhyme_pattern = <<"A", "B", "C", "B">>
    /\ parsedStanzas[1].verses[2].rhyme_index = <<"B">>
    /\ parsedStanzas[1].verses[4].rhyme_index = <<"B">>

\* C5, as stated: in every stanza, a verse whose rhyme key equals the rhyme
\* key of an earlier verse has the rhyme_index of that verse, whatever the
\* last token is.
DirectMatchForAnyKey ==
  \A stanza \in ParsedStanzas :
    \A j, k \in Positions(stanza) :
      (j < k /\ stanza.verses[j].rhyming_syllable = stanza.verses[k].rhyming_syllable)
        => stanza.verses[j].rhyme_index = stanza.verses[k].rhyme_index

\* C5, amended: in every stanza, a verse whose rhyme key is not empty and
\* equals the rhyme key of an earlier verse has the rhyme_index of that verse.
DirectMatchForNonEmptyKey ==
  \A stanza \in ParsedStanzas :
    \A j, k \in Positions(stanza) :
      (/\ j < k
       /\ Truthy(stanza.verses[k].rhyming_syllable)
       /\ stanza.verses[j].rhyming_syllable = stanza.verses[k].rhyming_syllable)
        => stanza.verses[j].rhyme_index = stanza.verses[k].rhyme_index

\* a stanza in which two verses with different texts share a non-empty key
\* and the later one is scanned past an earlier verse of another group
DirectMatchHappens ==
  \E stanza \in ParsedStanzas :
    \E i, j, k \in Positions(stanza) :
      /\ i < j /\ j < k
      /\ stanza.verses[j].text /= stanza.verses[k].text
      /\ Truthy(stanza.verses[k].rhyming_syllable)
      /\ stanza.verses[j].rhyming_syllable = stanza.verses[k].rhyming_syllable
      /\ stanza.verses[i].rhyme_index /= stanza.verses[k].rhyme_index
      /\ stanza.verses[j].rhyme_index = stanza.verses[k].rhyme_index

\* C6, as stated: a stanza of N <= 26 verses no two of whose last words match
\* under the broad test (wordsRhyme) has the first N letters as its pattern.
NoBroadMatchGivesAlphabet ==
  \A stanza \in ParsedStanzas :
    (/\ Len(stanza.verses) <= 26
     /\ \A j, k \in Positions(stanza) :
          j /= k => BroadlyUnrelated(stanza.verses[j], stanza.verses[k]))
      => stanza.rhyme_pattern = FirstLetters(Len(stanza.verses))

\* C6, amended: a stanza of N <= 26 verses no two of whose last words match
\* under the typed test (analyzeRhyme) has N distinct labels, and its pattern
\* is the first N letters in order.
NoTypedMatchGivesAlphabet ==
  \A stanza \in ParsedStanzas :
    (/\ Len(stanza.verses) <= 26
     /\ \A j, k \in Positions(stanza) :
          j /= k => Unrelated(stanza.verses[j], stanza.verses[k]))
      => /\ stanza.rhyme_pattern = FirstLetters(Len(stanza.verses))
         /\ \A j, k \in Positions(stanza) :
              j /= k => stanza.verses[j].rhyme_index /= stanza.verses[k].rhyme_index

\* a stanza of three or more verses, none related to another, labelled in order
NoTypedMatchHappens ==
  \E stanza \in ParsedStanzas :
    /\ Len(stanza.verses) >= 3
    /\ Len(stanza.verses) <= 26
    /\ \A j, k \in Positions(stanza) :
         j /= k => Unrelated(stanza.verses[j], stanza.verses[k])
    /\ stanza.rhyme_pattern = FirstLetters(Len(stanza.verses))

\* every verse of the stanza is related to every other one
EveryPairRhymes(stanza) ==
  \A j, k \in Positions(stanza) :
    j /= k => Related(stanza.verses[j], stanza.verses[k])

\* one letter repeated once for each verse
IsOneLetterRepeated(stanza) ==
  /\ Len(stanza.rhyme_pattern) = Len(stanza.verses)
  /\ \A p \in 1..Len(stanza.rhyme_pattern) :
       stanza.rhyme_pattern[p] = stanza.rhyme_pattern[1]

\* C7, as stated: a stanza of N >= 1 verses in which every pair of last words
\* rhymes has one letter repeated N times as its pattern, and every verse has
\* rhyme_type "rhyme".
MonorhymeIsRhyme ==
  \A stanza \in ParsedStanzas :
    EveryPairRhymes(stanza) =>
      /\ IsOneLetterRepeated(stanza)
      /\ \A v \in Positions(stanza) : stanza.verses[v].rhyme_type = "rhyme"

\* C7, amended: a stanza of N >= 1 verses in which every pair of last words
\* rhymes has one letter repeated N times as its pattern; every verse has
\* rhyme_type "rhyme" when N >= 2 and the typed test reports "rhyme" between
\* the first verse and a later one.
MonorhymeIsOneLetter ==
  \A stanza \in ParsedStanzas :
    EveryPairRhymes(stanza) =>
      /\ IsOneLetterRepeated(stanza)
      /\ (\E k \in Positions(stanza) :
            /\ k >= 2
            /\ analyzeRhyme(lastWordOf(stanza.verses[1]),
                            lastWordOf(stanza.verses[k])).type = "rhyme")
           => \A v \in Positions(stanza) : stanza.verses[v].rhyme_type = "rhyme"

\* a stanza of two or more verses with different last words, every pair of
\* which rhymes, the first pair with type "rhyme"
MonorhymeHappens ==
  \E stanza \in ParsedStanzas :
    /\ Len(stanza.verses) >= 2
    /\ EveryPairRhymes(stanza)
    /\ stanza.verses[1].rhyming_syllable /= stanza.verses[2].rhyming_syllable
    /\ analyzeRhyme(lastWordOf(stanza.verses[1]),
                    lastWordOf(stanza.verses[2])).type = "rhyme"
    /\ \A v \in Positions(stanza) : stanza.verses[v].rhyme_type = "rhyme"

\* the verse at position v shares its rhyme_index with no other verse
IsSingleton(stanza, v) ==
  \A u \in Positions(stanza) :
    u /= v => stanza.verses[u].rhyme_index /= stanza.verses[v].rhyme_index

IndicesOf(stanza) == [v \in Positions(stanza) |-> stanza.verses[v].rhyme_index]

\* C9: for every stanza returned by parseLyrics, rhyme_pattern is the
\* concatenation of the verses' rhyme_index values in verse order, every verse
\* has a non-empty rhyme_index, and the length of rhyme_pattern is the number
\* of verses, for any number of groups.
PatternIsConcatenation ==
  \A stanza \in ParsedStanzas :
    /\ stanza.rhyme_pattern = join(IndicesOf(stanza), <<>>)
    /\ \A v \in Positions(stanza) : stanza.verses[v].rhyme_index /= <<>>
    /\ Len(stanza.rhyme_pattern) = Len(stanza.verses)

\* a stanza with more than 26 groups
ManyGroupsHappen ==
  \E stanza \in ParsedStanzas :
    /\ Len(stanza.verses) > 26
    /\ Cardinality({stanza.verses[v].rhyme_index : v \in Positions(stanza)}) > 26
    /\ Len(stanza.rhyme_pattern) = Len(stanza.verses)

-----------------------------------------------------------------------------
(* Properties of the utility functions (specification SpecUtil) *)

\* C2: for every input string, extractRhymingSyllable, wordsRhyme,
\* analyzeRhyme and countSyllables return a value of their declared type (a
\* string, a boolean, a relation, an integer) and never raise an error.
UtilitiesAreTotal ==
  /\ thrown = FALSE
  /\ fn = "extractRhymingSyllable" => IsString(ret)
  /\ fn = "countSyllables" => IsInteger(ret)
  /\ fn = "wordsRhyme" => ret \in BOOLEAN
  /\ fn = "analyzeRhyme" =>
       ret \in [rhymes : BOOLEAN, type : {"rhyme", "assonance", "consonance", "none"}]

\* C3: countSyllables returns an integer >= 1 for every line that is not
\* empty and not made of white space only, and 0 for the others.
SyllableCountAtLeastOne ==
  fn = "countSyllables" =>
    IF trim(word1) = <<>>
      THEN ret = JSNumber(0)
      ELSE IsInteger(ret) /\ ret.value >= 1

\* C4: wordsRhyme(a, b) = wordsRhyme(b, a) and analyzeRhyme(a, b) =
\* analyzeRhyme(b, a), in the rhymes flag, in the type, and in whether the
\* call returns at all.
ClassificationIsSymmetric ==
  /\ fn = "wordsRhyme" =>
       /\ thrown = wordsRhymeThrows(word2, word1)
       /\ ~thrown => ret = wordsRhyme(word2, word1)
  /\ fn = "analyzeRhyme" =>
       /\ thrown = analyzeRhymeThrows(word2, word1)
       /\ ~thrown => ret = analyzeRhyme(word2, word1)

\* a call of analyzeRhyme that reports consonance between two different keys
\* whose vowels differ
ConsonanceHappens ==
  /\ fn = "analyzeRhyme"
  /\ ~thrown
  /\ ret = [rhymes |-> TRUE, type |-> "consonance"]
  /\ extractRhymingSyllable(word1) /= extractRhymingSyllable(word2)
  /\ Len(extractRhymingSyllable(word1)) /= Len(extractRhymingSyllable(word2))

LengtheningWords == {<<"i">>, <<"m", "y">>, <<"b", "y">>}

-----------------------------------------------------------------------------
(* Properties of the syllable count of a phrase (specification SpecUtil) *)

\* the positions of the white space of a text
SpacesOf(text) == {p \in 1..Len(text) : text[p] \in WhiteSpace}

\* the text is two tokens with one space between them
IsTwoWordPhrase(text) ==
  /\ Cardinality(SpacesOf(text)) = 1
  /\ \A p \in SpacesOf(text) : text[p] = " " /\ 1 < p /\ p < Len(text)

FirstWord(text) == SubSeq(text, 1, (CHOOSE p \in SpacesOf(text) : TRUE) - 1)

SecondWord(text) == SubSeq(text, (CHOOSE p \in SpacesOf(text) : TRUE) + 1, Len(text))

\* the first word ends with the vowel, plain or accented, in either case,
\* that the second word starts with
SameBoundaryVowel(text) ==
  LET lastChar == LowerChar(FirstWord(text)[Len(FirstWord(text))])
      firstChar == LowerChar(SecondWord(text)[1])
  IN  lastChar = firstChar /\ lastChar \in SyllableVowels

\* C11: for a phrase of two words of which the first ends with the vowel the
\* second starts with, countSyllables of the phrase is the sum of the counts
\* of the two words on their own, less one.
ElisionLosesOneSyllable ==
  (/\ fn = "countSyllables"
   /\ IsTwoWordPhrase(word1) /\ SameBoundaryVowel(word1))
    => /\ IsInteger(ret)
       /\ IsInteger(countSyllables(FirstWord(word1)))
       /\ IsInteger(countSyllables(SecondWord(word1)))
       /\ ret.value = countSyllables(FirstWord(word1)).value
                        + countSyllables(SecondWord(word1)).value - 1

-----------------------------------------------------------------------------
(* Properties of parseLyrics (specification Spec), continued *)

\* the syllable counts of the verses of a stanza, as numbers
SyllableCounts(stanza) == [k \in Positions(stanza) |-> stanza.verses[k].syllable_count]

\* C12: parseLyrics of "The cat in the hat / Makes me laugh today / The moon
\* shines bright / In the pale moonlight" returns one stanza with the
\* rhyme_pattern "ABCC", the rhyme indices A, B, C, C, the rhyme keys at, ay,
\* ight, ight and the syllable counts 5, 6, 5, 6.
TheCatInTheHatIsABCC ==
  (pc = "done" /\ lyrics = TheCatInTheHat) =>
    /\ Len(parsedStanzas) = 1
    /\ parsedStanzas[1].rhyme_pattern = <<"A", "B", "C", "C">>
    /\ IndicesOf(parsedStanzas[1]) = <<<<"A">>, <<"B">>, <<"C">>, <<"C">>>>
    /\ [k \in 1..4 |-> parsedStanzas[1].verses[k].rhyming_syllable]
         = <<<<"a", "t">>, <<"a", "y">>, <<"i", "g", "h", "t">>, <<"i", "g", "h", "t">>>>
    /\ SyllableCounts(parsedStanzas[1])
         = <<JSNumber(5), JSNumber(6), JSNumber(5), JSNumber(6)>>

\* parseLyrics has returned the analysis of the four lines
TheCatInTheHatIsParsed ==
  /\ pc = "done" /\ lyrics = TheCatInTheHat
  /\ Len(parsedStanzas) = 1 /\ Len(parsedStanzas[1].verses) = 4

\* the rhyme key of a verse, as parseLyrics reports it
keyOf(stanza, v) == stanza.verses[v].rhyming_syllable

\* the keys of the Italian-O entries of assonanceGroups
ItalianOKeys == {<<"t", "r", "o">>, <<"n", "t", "o">>, <<"a", "t", "o">>, <<"e", "t", "o">>, <<"o", "t", "o">>}

\* C13: two verses whose keys are different keys of the family tro, nto, ato,
\* eto, oto (such as "filtro" and "dipinto") are classified "assonance" by
\* analyzeRhyme, and a stanza made of two such verses has the pattern "AA"
\* and reports rhyme_type "assonance" for both.
ItalianOIsAssonance ==
  \A stanza \in ParsedStanzas :
    \A j, k \in Positions(stanza) :
      (/\ j < k
       /\ keyOf(stanza, j) \in ItalianOKeys /\ keyOf(stanza, k) \in ItalianOKeys
       /\ keyOf(stanza, j) /= keyOf(stanza, k))
        => /\ ~analyzeRhymeThrows(lastWordOf(stanza.verses[j]), lastWordOf(stanza.verses[k]))
           /\ analyzeRhyme(lastWordOf(stanza.verses[j]), lastWordOf(stanza.verses[k]))
                = [rhymes |-> TRUE, type |-> "assonance"]
           /\ Len(stanza.verses) = 2 =>
                /\ stanza.rhyme_pattern = <<"A", "A">>
                /\ stanza.verses[1].rhyme_index = stanza.verses[2].rhyme_index
                /\ stanza.verses[1].rhyme_type = "assonance"
                /\ stanza.verses[2].rhyme_type = "assonance"

\* the stanza "filtro / dipinto" of the README has been analysed
FiltroDipintoHappens ==
  \E stanza \in ParsedStanzas :
    /\ Len(stanza.verses) = 2
    /\ lastWordOf(stanza.verses[1]) = <<"f", "i", "l", "t", "r", "o">> /\ keyOf(stanza, 1) = <<"t", "r", "o">>
    /\ lastWordOf(stanza.verses[2]) = <<"d", "i", "p", "i", "n", "t", "o">> /\ keyOf(stanza, 2) = <<"n", "t", "o">>
    /\ stanza.verses[2].rhyme_type = "assonance"

-----------------------------------------------------------------------------
(* Properties of extractRhymingSyllable (specification SpecUtil) *)

IsAlphaNumeric(c) == c \in LowerLetterSet \cup UpperLetterSet \cup Digits

\* the word in lower case without its non-alphanumeric characters
AlphaNumericWord(word) == SelectSeq(toLowerCase(word), IsAlphaNumeric)

\* the key the four rules of the priority order give for a word
KeyByPriority(word) ==
  LET cleaned == AlphaNumericWord(word)
      suffixes == {i \in 1..Len(patterns) : endsWith(cleaned, patterns[i])}
      lastTwo == SliceLast(cleaned, 2)
  IN  IF HasOwn(rhymeSpecialCases, cleaned)
        THEN rhymeSpecialCases[CHOOSE i \in 1..Len(rhymeSpecialCases) :
                                 rhymeSpecialCases[i][1] = cleaned][2]
      ELSE IF suffixes /= {} THEN patterns[CHOOSE i \in suffixes : TRUE]
      ELSE IF Len(cleaned) >= 3
        THEN IF VowelThenConsonant(lastTwo) THEN lastTwo
             ELSE IF Len(cleaned) >= 4 THEN SliceLast(cleaned, 3)
             ELSE lastTwo
      ELSE cleaned

\* C14: extractRhymingSyllable returns, for the lower-cased word without its
\* non-alphanumeric characters: the value of the exception table when the
\* word is an entry of it; otherwise the listed suffix the word ends in;
\* otherwise, for three characters or more, the last two when they are a
\* vowel and a consonant, else the last three of four or more, else the last
\* two; and a shorter word unchanged.
KeyFollowsPriorityOrder ==
  fn = "extractRhymingSyllable" => ret = KeyByPriority(word1)

-----------------------------------------------------------------------------
(* Properties of the grouping pass (specification Spec) *)

\* the step is a verses.forEach callback in which the verse joins a group
IsJoinStep ==
  /\ pc = "group" /\ pc' = "group" /\ index' = index + 1
  /\ scanStops(verses, index) /= {}

\* the label of the group the verse of a join step joins
joinedLabel == rhymeIndices[Min(scanStops(verses, index)) + 1]

\* the relation analyzeRhyme reports for the match of a join step
joinType == previousAnalysis(verses, Min(scanStops(verses, index)), index).type

\* C15, as stated: when a verse joins a group, a join classified "assonance"
\* or "consonance" changes the group's aggregate relation only when that
\* aggregate is "none"; a group of aggregate "consonance" keeps it when a
\* verse joins by assonance.
AssonanceFillsNoneOnly ==
  [][IsJoinStep /\ joinType \in {"assonance", "consonance"} =>
       rhymeGroups'[joinedLabel].type =
         IF rhymeGroups[joinedLabel].type = "none" THEN joinType
         ELSE rhymeGroups[joinedLabel].type]_vars

\* C15, amended: a join classified "assonance" overwrites the aggregate
\* unless it is "rhyme" (so it overwrites "none" and "consonance"); a join
\* classified "consonance" overwrites it only when it is "none".
AssonanceOverwritesConsonance ==
  [][IsJoinStep =>
       /\ joinType = "assonance" =>
            rhymeGroups'[joinedLabel].type =
              IF rhymeGroups[joinedLabel].type = "rhyme" THEN "rhyme" ELSE "assonance"
       /\ joinType = "consonance" =>
            rhymeGroups'[joinedLabel].type =
              IF rhymeGroups[joinedLabel].type = "none" THEN "consonance"
              ELSE rhymeGroups[joinedLabel].type]_vars

\* a group whose second verse joined by consonance and whose third verse
\* joined by assonance, during the pass
ConsonanceGroupJoinedByAssonance ==
  /\ pc = "group"
  /\ \E label \in DOMAIN rhymeGroups :
       LET group == rhymeGroups[label]
       IN  /\ Len(group.verses) = 3
           /\ group.type = "assonance"
           /\ previousAnalysis(verses, group.verses[1], group.verses[2]).type = "consonance"
           /\ previousAnalysis(verses, group.verses[1], group.verses[3]).type = "assonance"

\* the place of a relation in the order none < consonance < assonance < rhyme
Specificity(type) ==
  CASE type = "none" -> 0
    [] type = "consonance" -> 1
    [] type = "assonance" -> 2
    [] type = "rhyme" -> 3

\* C16: during the pass over a stanza, no step lowers the aggregate relation
\* of a group in the order none < consonance < assonance < rhyme; a group
\* whose aggregate is "rhyme" keeps it.
AggregateNeverDecreases ==
  [][\A label \in DOMAIN rhymeGroups \cap DOMAIN rhymeGroups' :
       /\ Specificity(rhymeGroups'[label].type) >= Specificity(rhymeGroups[label].type)
       /\ rhymeGroups[label].type = "rhyme" => rhymeGroups'[label].type = "rhyme"]_vars

\* a group of aggregate "rhyme" that a later verse has joined by consonance
RhymeGroupJoinedByConsonance ==
  /\ pc = "group"
  /\ \E label \in DOMAIN rhymeGroups :
       LET group == rhymeGroups[label]
       IN  /\ Len(group.verses) = 3
           /\ group.type = "rhyme"
           /\ previousAnalysis(verses, group.verses[1], group.verses[2]).type = "rhyme"
           /\ previousAnalysis(verses, group.verses[1], group.verses[3]).type = "consonance"

\* the earlier verses of a stanza that the typed test relates to verse k
MatchesBefore(stanza, k) ==
  {i \in Positions(stanza) : i < k /\ Related(stanza.verses[i], stanza.verses[k])}

\* C17: every verse with a related earlier verse has the rhyme_index of the
\* first such verse, whatever relation the later ones have; and every verse
\* that is not the first of its group is related to an earlier verse of the
\* same rhyme_index.
FirstMatchWins ==
  \A stanza \in ParsedStanzas :
    \A k \in Positions(stanza) :
      /\ \A i \in MatchesBefore(stanza, k) :
           (\A j \in MatchesBefore(stanza, k) : i <= j)
             => stanza.verses[k].rhyme_index = stanza.verses[i].rhyme_index
      /\ (\E i \in Positions(stanza) :
            i < k /\ stanza.verses[i].rhyme_index = stanza.verses[k].rhyme_index)
           => \E i \in MatchesBefore(stanza, k) :
                stanza.verses[i].rhyme_index = stanza.verses[k].rhyme_index

\* a verse related by consonance to the first verse and by assonance to the
\* second, which is in another group, has the rhyme_index of the first
WeakerFirstMatchHappens ==
  \E stanza \in ParsedStanzas :
    /\ Len(stanza.verses) = 3
    /\ analyzeRhyme(lastWordOf(stanza.verses[1]), lastWordOf(stanza.verses[3])).type = "consonance"
    /\ analyzeRhyme(lastWordOf(stanza.verses[2]), lastWordOf(stanza.verses[3])).type = "assonance"
    /\ IndicesOf(stanza) = <<<<"A">>, <<"B">>, <<"A">>>>

\* the labels of a stanza
LabelsOf(stanza) == {stanza.verses[k].rhyme_index : k \in Positions(stanza)}

\* the labels of the verses before verse k
LabelsBefore(stanza, k) == {stanza.verses[i].rhyme_index : i \in 1..(k - 1)}

\* the n-th letter of the alphabet as a label
Letter(n) == <<UpperLetters[n]>>

\* C18: in every stanza of at most 26 groups the first verse has the label
\* "A", a verse that matches no earlier verse has the letter after the
\* highest letter used before it, two such verses never have the same label,
\* and the labels of the stanza are the first g letters, g the number of groups.
LabelsInDiscoveryOrder ==
  \A stanza \in ParsedStanzas :
    LET openers == {k \in Positions(stanza) : MatchesBefore(stanza, k) = {}}
        g == Cardinality(openers)
    IN  g <= 26 =>
          /\ Len(stanza.verses) >= 1 => stanza.verses[1].rhyme_index = Letter(1)
          /\ \A k \in openers :
               /\ k > 1 =>
                    \E n \in 1..25 :
                      /\ Letter(n) \in LabelsBefore(stanza, k)
                      /\ \A m \in (n + 1)..26 : Letter(m) \notin LabelsBefore(stanza, k)
                      /\ stanza.verses[k].rhyme_index = Letter(n + 1)
               /\ \A j \in openers :
                    j /= k => stanza.verses[j].rhyme_index /= stanza.verses[k].rhyme_index
          /\ LabelsOf(stanza) = {Letter(n) : n \in 1..g}

\* a stanza whose third verse opens the second group, after a verse that
\* joined the first
SecondGroupOpensThird ==
  \E stanza \in ParsedStanzas :
    /\ Len(stanza.verses) = 3
    /\ MatchesBefore(stanza, 2) = {1}
    /\ MatchesBefore(stanza, 3) = {}
    /\ IndicesOf(stanza) = <<<<"A">>, <<"A">>, <<"B">>>>

\* C19: after parseLyrics, every rhyme_index is made of upper-case letters
\* A-Z only, in stanzas of any number of groups, the 27th and later groups
\* included.
LabelsAreUpperCaseLetters ==
  \A stanza \in ParsedStanzas :
    \A k \in Positions(stanza) :
      /\ stanza.verses[k].rhyme_index /= <<>>
      /\ \A p \in 1..Len(stanza.verses[k].rhyme_index) :
           stanza.verses[k].rhyme_index[p] \in UpperLetterSet

-----------------------------------------------------------------------------
(* Properties of the splitting (specification Spec) *)

\* the lines of the input text
InputLines == splitNewline(lyrics)

\* a line of white space only
IsBlank(line) == trim(line) = <<>>

\* the lines that start a maximal run of consecutive non-blank lines
RunStarts ==
  {i \in 1..Len(InputLines) :
     ~IsBlank(InputLines[i]) /\ (i = 1 \/ IsBlank(InputLines[i - 1]))}

\* the number of lines of the run that starts at line s
RunLength(s) ==
  Cardinality({j \in s..Len(InputLines) : \A m \in s..j : ~IsBlank(InputLines[m])})

\* C20: the stanzas parseLyrics returns are the maximal runs of consecutive
\* non-blank lines of the input, in order, with the indices 1, 2, ..., k;
\* the verses of a stanza are its lines, trimmed, in order, with the indices
\* 1, 2, ..., n; no stanza is without verses, no verse has an empty text,
\* and a text of white space only gives no stanza.
StanzasAreRunsOfLines ==
  pc = "done" =>
    /\ Len(parsedStanzas) = Cardinality(RunStarts)
    /\ \A s \in RunStarts :
         LET k == Cardinality({t \in RunStarts : t <= s})
         IN  /\ parsedStanzas[k].index = k
             /\ Len(parsedStanzas[k].verses) = RunLength(s)
             /\ \A m \in 1..RunLength(s) :
                  /\ parsedStanzas[k].verses[m].index = m
                  /\ parsedStanzas[k].verses[m].text = trim(InputLines[s + m - 1])
    /\ \A stanza \in ParsedStanzas :
         /\ Len(stanza.verses) >= 1
         /\ \A m \in Positions(stanza) : stanza.verses[m].text /= <<>>
    /\ trim(lyrics) = <<>> => parsedStanzas = <<>>

\* the text with indented lines and blank lines of several kinds has been
\* split into its three stanzas
IndentedStanzasAreSplit ==
  /\ pc = "done" /\ lyrics = IndentedStanzas
  /\ Len(parsedStanzas) = 3
  /\ Len(parsedStanzas[2].verses) = 2
  /\ parsedStanzas[2].verses[1].text = <<"m", "y", " ", "S", "t", "a", "r">>
  /\ parsedStanzas[3].verses[1].text = <<"!", "!", "!">>

-----------------------------------------------------------------------------
(* Properties of the per-word syllable count (specification SpecUtil) *)

\* C21: in countSyllables, every token of the normalized line, also one made
\* of apostrophes, digits, underscores or accented vowels only, adds at
\* least 1 to the total before the elisions are subtracted, so that total is
\* at least the number of tokens.
EveryTokenCountsAtLeastOne ==
  fn = "countSyllables" =>
    LET words == syllableWords(word1)
    IN  /\ \A i \in 1..Len(words) :
             /\ IsInteger(countWordSyllables(words[i]))
             /\ countWordSyllables(words[i]).value >= 1
        /\ sumWordSyllables(words) >= Len(words)
        /\ IsInteger(ret)
        /\ ret.value >= Len(words) - countSinalefe(words)

IsLetterOrAccent(c) == c \in LowerLetterSet \cup UpperLetterSet \cup AccentedVowels

\* the word in lower case, its letters and accented vowels kept
AccentedWord(word) == SelectSeq(toLowerCase(word), IsLetterOrAccent)

\* the count of a word when the accented vowels are kept: the entry of the
\* exception table, else the vowel runs over the alphabet with the accented
\* vowels, adjusted and clamped
countWithAccents(word) ==
  LET kept == AccentedWord(word)
  IN  IF HasOwn(syllableSpecialCases, kept)
        THEN syllableSpecialCases[CHOOSE i \in 1..Len(syllableSpecialCases) :
                                    syllableSpecialCases[i][1] = kept][2]
        ELSE Max(1, italianQuGu(kept, endingEd(kept,
                      silentE(kept, vowelGroupsFrom(kept, 1, 0, FALSE)))))

\* the text is one word of letters and accented vowels, with an accented vowel
IsAccentedToken(text) ==
  /\ text /= <<>>
  /\ \A p \in 1..Len(text) : IsLetterOrAccent(text[p])
  /\ \E p \in 1..Len(text) : text[p] \in AccentedVowels

\* C22: the per-word count keeps the accented vowels and counts a run of
\* them as a run of plain vowels ("citta" with a grave accent has 2), and a
\* word spelled with an accent in the exception table ("piu", "perche" with
\* their accents) gets the value of its entry.
AccentedVowelsAreCounted ==
  (fn = "countSyllables" /\ IsAccentedToken(word1)) =>
    ret = JSNumber(countWithAccents(word1))

-----------------------------------------------------------------------------
(* Properties of the rhyme types and of the labels (specification Spec) *)

TextsOf(stanza) == [k \in Positions(stanza) |-> stanza.verses[k].text]

IsPrefix(s, t) == Len(s) <= Len(t) /\ SubSeq(t, 1, Len(s)) = s

\* during the pass, the verses processed so far have a rhyme_index and the
\* others have none
WrittenWhenProcessed ==
  pc = "group" =>
    /\ Len(rhymeIndices) = index
    /\ \A v \in 1..Len(verses) :
         IF v <= index THEN verses[v].rhyme_index = rhymeIndices[v] /\ rhymeIndices[v] /= <<>>
         ELSE verses[v].rhyme_index = <<>>

\* a returned stanza whose lines are the first lines of another returned
\* stanza has the first labels of that stanza
PrefixHasPrefixPattern ==
  \A s \in ParsedStanzas, t \in ParsedStanzas :
    IsPrefix(TextsOf(s), TextsOf(t)) =>
      /\ IsPrefix(s.rhyme_pattern, t.rhyme_pattern)
      /\ IsPrefix(IndicesOf(s), IndicesOf(t))

\* no step of the pass or of the finalization changes a rhyme_index written
\* before
WrittenOnce ==
  pc = "group" =>
    /\ IsPrefix(rhymeIndices, rhymeIndices')
    /\ \A v \in 1..index : verses'[v].rhyme_index = verses[v].rhyme_index

\* C24: a verse's rhyme_index is written when the verse is processed and no
\* later step changes it; the rhyme_pattern of the first k lines of a stanza
\* is the first k labels of the rhyme_pattern of the stanza.
GroupingIsPrefixStable ==
  /\ [](WrittenWhenProcessed /\ PrefixHasPrefixPattern)
  /\ [][WrittenOnce]_vars

\* the first three lines of the cat-in-the-hat text and the text itself have
\* been analysed as two stanzas, and the fourth verse joined the third
PrefixAndWholeHappen ==
  /\ pc = "done"
  /\ Len(parsedStanzas) = 2
  /\ Len(parsedStanzas[1].verses) = 3 /\ Len(parsedStanzas[2].verses) = 4
  /\ IsPrefix(TextsOf(parsedStanzas[1]), TextsOf(parsedStanzas[2]))
  /\ parsedStanzas[1].verses[3].rhyme_type = ""
  /\ parsedStanzas[2].verses[3].rhyme_type = "rhyme"
  /\ parsedStanzas[2].rhyme_pattern = <<"A", "B", "C", "C">>
====
